---------------------------- MODULE Spec2Model ----------------------------
(***************************************************************************)
(* Model of the facial-geometry core of EmotionsTrafficLight:              *)
(*   frontend/src/utils/facialAnalysis.js     (FacialAnalyzer)             *)
(*   frontend/src/utils/facePoseEstimation.js (FacePoseEstimator)          *)
(*                                                                         *)
(* JavaScript numbers are modelled as decimal floating-point numbers of    *)
(* four significant digits (see Numbers).  Landmark frames are drawn from  *)
(* a small family of synthetic faces.                                      *)
(***************************************************************************)
EXTENDS Integers, Sequences, FiniteSets, TLC

(***************************************************************************)
(* Numbers                                                                 *)
(*                                                                         *)
(* A JavaScript number is a floating-point number: every arithmetic        *)
(* operation returns the representable number nearest to the exact result  *)
(* (ties to the even mantissa).  The model keeps that rule with a decimal  *)
(* mantissa of four digits where IEEE doubles have a binary one of 53      *)
(* bits: a number is [m, e], standing for m * 10^e with 1000 <= |m| <=     *)
(* 9999, and zero is [m |-> 0, e |-> 0]; -0 is 0.  The range is that of a   *)
(* double: a result of 10^309 or more is Infinity (doubles end at 1.8 x    *)
(* 10^308), one below 10^-324 is 0 (doubles end at 4.9 x 10^-324).  Whole  *)
(* numbers below 10000 and decimal fractions of up to four digits are      *)
(* exact.  NaN and the two infinities, which overflow and a division by    *)
(* zero return, are values of their own, and the operations treat them as  *)
(* IEEE arithmetic does.                                                   *)
(***************************************************************************)
NaN == [js |-> "NaN"]
Infinity(s) == [js |-> "Infinity", sign |-> s]

\* A finite number.
IsNum(a) == "m" \in DOMAIN a

IAbs(i) == IF i < 0 THEN -i ELSE i

Pow10(k) == 10 ^ k

\* The number of decimal digits of i > 0.
Digits(i) ==
  IF i < 10 THEN 1 ELSE IF i < 100 THEN 2 ELSE IF i < 1000 THEN 3
  ELSE IF i < 10000 THEN 4 ELSE IF i < 100000 THEN 5
  ELSE IF i < 1000000 THEN 6 ELSE IF i < 10000000 THEN 7
  ELSE IF i < 100000000 THEN 8 ELSE IF i < 1000000000 THEN 9 ELSE 10

\* q + 1 carried into the next decade when the mantissa overflows.
Carried(s, q, e) ==
  IF q = 10000 THEN [m |-> s * 1000, e |-> e + 1] ELSE [m |-> s * q, e |-> e]

\* i = q * unit + r rounded to q or q + 1: to the nearest, ties to even.
RoundedWith(s, q, r, unit, e) ==
  Carried(s, IF 2 * r > unit \/ (2 * r = unit /\ q % 2 = 1) THEN q + 1 ELSE q, e)

\* s * i * 10^e for i > 0 with k digits, s = 1 or -1.
NumOfDigits(s, i, e, k) ==
  IF k <= 4 THEN [m |-> s * i * Pow10(4 - k), e |-> e - (4 - k)]
  ELSE RoundedWith(s, i \div Pow10(k - 4), i % Pow10(k - 4), Pow10(k - 4),
                   e + (k - 4))

\* Overflow to an infinity and underflow to 0, for x = m * 10^e with a
\* mantissa of four digits.
InRange(x) ==
  IF x.e + 3 > 308 THEN Infinity(IF x.m < 0 THEN -1 ELSE 1)
  ELSE IF x.e + 3 < -324 THEN [m |-> 0, e |-> 0]
  ELSE x

\* The number nearest to i * 10^e.
Num(i, e) ==
  IF i = 0 THEN [m |-> 0, e |-> 0]
  ELSE InRange(NumOfDigits(IF i < 0 THEN -1 ELSE 1, IAbs(i), e,
                           Digits(IAbs(i))))

R(i) == Num(i, 0)

\* -1, 0 or 1 for a number that is not NaN.
Sgn(a) ==
  IF IsNum(a) THEN (IF a.m < 0 THEN -1 ELSE IF a.m = 0 THEN 0 ELSE 1)
  ELSE a.sign

RNeg(a) ==
  IF IsNum(a) THEN [m |-> -a.m, e |-> a.e]
  ELSE IF a = NaN THEN NaN ELSE Infinity(-a.sign)
RAbs(a) ==
  IF IsNum(a) THEN [m |-> IAbs(a.m), e |-> a.e]
  ELSE IF a = NaN THEN NaN ELSE Infinity(1)
RIsZero(a) == IsNum(a) /\ a.m = 0

\* a + b for a.e >= b.e, both non-zero: beyond five decades b is less than
\* half a unit of a's last digit.
AddAligned(a, b) ==
  IF a.e - b.e > 5 THEN a ELSE Num(a.m * Pow10(a.e - b.e) + b.m, b.e)

\* a + b where one of them is NaN or infinite.
AddSpecial(a, b) ==
  IF a = NaN \/ b = NaN THEN NaN
  ELSE IF IsNum(a) THEN b
  ELSE IF IsNum(b) \/ a = b THEN a
  ELSE NaN

RAdd(a, b) ==
  IF ~(IsNum(a) /\ IsNum(b)) THEN AddSpecial(a, b)
  ELSE IF a.m = 0 THEN b
  ELSE IF b.m = 0 THEN a
  ELSE IF a.e >= b.e THEN AddAligned(a, b) ELSE AddAligned(b, a)

RSub(a, b) == RAdd(a, RNeg(b))

\* a * b where one of them is NaN or infinite.
MulSpecial(a, b) ==
  IF a = NaN \/ b = NaN \/ Sgn(a) = 0 \/ Sgn(b) = 0 THEN NaN
  ELSE Infinity(Sgn(a) * Sgn(b))

RMul(a, b) ==
  IF IsNum(a) /\ IsNum(b) THEN Num(a.m * b.m, a.e + b.e)
  ELSE MulSpecial(a, b)

\* The quotient of the mantissas to five or six digits, and one more digit
\* that tells whether anything is left beyond them.
DivOfAbs(s, x, y, e) ==
  Num(s * (10 * (x \div y) + (IF x % y = 0 THEN 0 ELSE 1)), e - 1)

\* a / b where b is 0, or one of them is NaN or infinite: 0 / 0 and
\* Infinity / Infinity are NaN, x / 0 is infinite for every other x.
DivSpecial(a, b) ==
  IF a = NaN \/ b = NaN THEN NaN
  ELSE IF IsNum(a) /\ IsNum(b)
  THEN (IF a.m = 0 THEN NaN ELSE Infinity(Sgn(a)))
  ELSE IF IsNum(a) THEN [m |-> 0, e |-> 0]
  ELSE IF IsNum(b) THEN Infinity(IF Sgn(b) < 0 THEN -Sgn(a) ELSE Sgn(a))
  ELSE NaN

RDiv(a, b) ==
  IF ~(IsNum(a) /\ IsNum(b)) \/ RIsZero(b) THEN DivSpecial(a, b)
  ELSE IF a.m = 0 THEN a
  ELSE DivOfAbs(IF (a.m < 0) = (b.m < 0) THEN 1 ELSE -1,
                IAbs(a.m) * 100000, IAbs(b.m), a.e - b.e - 5)

\* The number nearest to n / d, for whole numbers n and d # 0.
Frac(n, d) == RDiv(R(n), R(d))

\* a < b.  The sign of a - b is exact: a sum of two numbers never rounds to
\* 0.  Every comparison with NaN is false.
RLt(a, b) ==
  IF IsNum(a) /\ IsNum(b) THEN RSub(a, b).m < 0
  ELSE a # NaN /\ b # NaN /\ a # b /\ (a = Infinity(-1) \/ b = Infinity(1))
RGt(a, b) == RLt(b, a)
RLe(a, b) == a # NaN /\ b # NaN /\ ~RLt(b, a)

\* The largest r in lo..hi with r * r <= n, found by bisection.
RECURSIVE SqrtIn(_, _, _)
SqrtIn(n, lo, hi) ==
  IF lo = hi THEN lo
  ELSE LET mid == (lo + hi + 1) \div 2
       IN  IF mid * mid <= n THEN SqrtIn(n, mid, hi) ELSE SqrtIn(n, lo, mid - 1)

ISqrt(n) == SqrtIn(n, 0, IF n < 46340 THEN n ELSE 46340)

\* The whole number nearest to the square root of n, given r = ISqrt(n).
NearestRoot(n, r) == IF n > r * r + r THEN r + 1 ELSE r

\* Math.sqrt(a) for a >= 0: a = n * 10^e with e even and n of seven or eight
\* digits, whose root has four.
SqrtOfEven(n, e) == Num(NearestRoot(n, ISqrt(n)), e \div 2)

RSqrt(a) ==
  IF ~IsNum(a) THEN (IF a = Infinity(1) THEN a ELSE NaN)
  ELSE IF a.m < 0 THEN NaN
  ELSE IF a.m = 0 THEN a
  ELSE IF a.e % 2 = 0 THEN SqrtOfEven(a.m * 10000, a.e - 4)
  ELSE SqrtOfEven(a.m * 1000, a.e - 3)

(***************************************************************************)
(* JavaScript values                                                       *)
(***************************************************************************)
\* null and undefined are records of their own shape, so that they can be
\* compared with numbers, points, arrays and objects.
Null      == [js |-> "null"]
Undefined == [js |-> "undefined"]

\* !x is false for every array and object, true for null and undefined.
Truthy(x) == x # Null /\ x # Undefined

\* A number, or undefined, as a condition: 0, NaN and undefined are falsy.
TruthyNumber(x) == x # Undefined /\ x # NaN /\ ~RIsZero(x)


(***************************************************************************)
(* Topology tables (facialAnalysis.js, facePoseEstimation.js)              *)
(***************************************************************************)
FACIAL_REGIONS ==
  [ LEFT_EYE  |-> [ outer |-> <<33, 246, 161, 160, 159, 158, 157, 173, 133>>,
                    upper |-> <<246, 161, 160, 159, 158, 157, 173>>,
                    lower |-> <<33, 7, 163, 144, 145, 153, 154, 155, 133>> ],
    RIGHT_EYE |-> [ outer |-> <<263, 466, 388, 387, 386, 385, 384, 398, 362>>,
                    upper |-> <<466, 388, 387, 386, 385, 384, 398>>,
                    lower |-> <<263, 249, 390, 373, 374, 380, 381, 382, 362>> ],
    LEFT_EYEBROW  |-> <<70, 63, 105, 66, 107, 55, 189>>,
    RIGHT_EYEBROW |-> <<300, 293, 334, 296, 336, 285, 417>>,
    NOSE  |-> [ bridge |-> <<6, 197, 195, 5>> ],
    MOUTH |-> [ outer_upper |-> <<61, 185, 40, 39, 37, 0, 267, 269, 270, 409,
                                  291>>,
                outer_lower |-> <<146, 91, 181, 84, 17, 314, 405, 321, 375,
                                  291>>,
                left_corner |-> 61, right_corner |-> 291,
                center_top |-> 13, center_bottom |-> 14 ],
    JAW   |-> [ left  |-> <<234, 93, 132, 58, 172, 136, 150, 149, 176, 148,
                            152>>,
                right |-> <<454, 323, 361, 288, 397, 365, 379, 378, 400, 377,
                            152>>,
                chin  |-> <<152, 378, 379, 365, 397, 288, 361, 323, 454>> ],
    LEFT_CHEEK  |-> <<116, 117, 118, 119, 120, 121, 128, 245>>,
    RIGHT_CHEEK |-> <<345, 346, 347, 348, 349, 350, 357, 465>> ]

MEASUREMENT_PAIRS ==
  [ EYE_TO_EYE       |-> <<33, 263>>,
    LEFT_EYE_WIDTH   |-> <<33, 133>>,
    RIGHT_EYE_WIDTH  |-> <<263, 362>>,
    NOSE_HEIGHT      |-> <<6, 2>>,
    NOSE_WIDTH       |-> <<220, 440>>,
    MOUTH_WIDTH      |-> <<61, 291>>,
    MOUTH_HEIGHT     |-> <<13, 14>>,
    FOREHEAD_TO_NOSE |-> <<10, 1>>,
    NOSE_TO_CHIN     |-> <<1, 152>>,
    FACE_HEIGHT      |-> <<10, 152>>,
    UPPER_THIRD      |-> <<10, 6>>,
    MIDDLE_THIRD     |-> <<6, 2>>,
    LOWER_THIRD      |-> <<2, 152>> ]

POSE_ANCHORS ==
  [ LEFT_EYE |-> 33, RIGHT_EYE |-> 263, NOSE_TIP |-> 1, CHIN |-> 152,
    LEFT_EYE_INNER |-> 133, RIGHT_EYE_INNER |-> 362, FOREHEAD |-> 10 ]

\* Both classes set this.maxHistoryLength = 30 in their constructors.
maxHistoryLength == 30

\* The length below which estimatePose and analyze reject a frame.
MinLandmarksLess == 468 - 1
MinLandmarks == 468

(***************************************************************************)
(* Landmark arrays                                                         *)
(*                                                                         *)
(* A JavaScript array of landmarks is [ref, length, pt]: ref names the     *)
(* array object, and pt maps the indices that hold a point to <<x, y, z>>; *)
(* landmarks[i] is undefined for every other index (a hole, or             *)
(* i >= length).  The model keeps only the entries the modelled code       *)
(* reads.                                                                  *)
(***************************************************************************)
At(landmarks, idx) ==
  IF idx \in DOMAIN landmarks.pt THEN landmarks.pt[idx] ELSE Undefined

SeqRange(s) == {s[i] : i \in 1..Len(s)}

\* The entries k..Len(s) of a sequence of numbers added, one after the other,
\* to the sum so far (a loop with +=, or reduce((a, b) => a + b, 0)).  The
\* first test reads the sum so far, which keeps the evaluation shallow.
RECURSIVE RSumFrom(_, _, _)
RSumFrom(s, k, sum) ==
  IF RIsZero(sum) /\ k > Len(s) THEN sum
  ELSE IF k > Len(s) THEN sum
  ELSE RSumFrom(s, k + 1, RAdd(sum, s[k]))

RSumSeq(s) == RSumFrom(s, 1, R(0))

(***************************************************************************)
(* FacialAnalyzer: pure helpers                                            *)
(***************************************************************************)
\* distance3D, and the local `distance` of computeDistances.
distance3D(p1, p2) ==
  LET dx == RSub(p2[1], p1[1])
      dy == RSub(p2[2], p1[2])
      dz == RSub(p2[3], p1[3])
  IN  RSqrt(RAdd(RAdd(RMul(dx, dx), RMul(dy, dy)), RMul(dz, dz)))

\* computeEyeHeight: mean |upper.y - lower.y| over all pairs of one upper-lid
\* and one lower-lid point that are both present; 0 when there is no pair.
computeEyeHeight(landmarks, side) ==
  LET region == IF side = "left" THEN FACIAL_REGIONS.LEFT_EYE
                                 ELSE FACIAL_REGIONS.RIGHT_EYE
      nu == Len(region.upper)
      nl == Len(region.lower)
      up(k) == At(landmarks, region.upper[((k - 1) \div nl) + 1])
      lo(k) == At(landmarks, region.lower[((k - 1) % nl) + 1])
      both(k) == Truthy(up(k)) /\ Truthy(lo(k))
      terms == [k \in 1..(nu * nl) |->
                  IF both(k) THEN RAbs(RSub(up(k)[2], lo(k)[2])) ELSE R(0)]
      count == Cardinality({k \in 1..(nu * nl) : both(k)})
  IN  IF count > 0 THEN RDiv(RSumSeq(terms), R(count)) ELSE R(0)

\* computeMouthOpenness.
computeMouthOpenness(landmarks) ==
  LET top    == At(landmarks, FACIAL_REGIONS.MOUTH.center_top)
      bottom == At(landmarks, FACIAL_REGIONS.MOUTH.center_bottom)
  IN  IF ~Truthy(top) \/ ~Truthy(bottom) THEN R(0) ELSE distance3D(top, bottom)

\* computeDistances: one entry per pair whose two landmarks are present, plus
\* the three derived measurements, which are always set.
computeDistances(landmarks) ==
  LET present == {name \in DOMAIN MEASUREMENT_PAIRS :
                    /\ Truthy(At(landmarks, MEASUREMENT_PAIRS[name][1]))
                    /\ Truthy(At(landmarks, MEASUREMENT_PAIRS[name][2]))}
      pairs == [name \in present |->
                  distance3D(At(landmarks, MEASUREMENT_PAIRS[name][1]),
                             At(landmarks, MEASUREMENT_PAIRS[name][2]))]
  IN  [ LEFT_EYE_HEIGHT  |-> computeEyeHeight(landmarks, "left"),
        RIGHT_EYE_HEIGHT |-> computeEyeHeight(landmarks, "right"),
        MOUTH_OPENNESS   |-> computeMouthOpenness(landmarks) ] @@ pairs

\* indices.map(idx => landmarks[idx]).filter(p => p)
presentPoints(landmarks, indices) ==
  SelectSeq([i \in 1..Len(indices) |-> At(landmarks, indices[i])],
            LAMBDA p : Truthy(p))

\* The coordinate k (1, 2 or 3) of each point of a sequence.
coordinates(points, k) == [i \in 1..Len(points) |-> points[i][k]]

\* getRegionHeight: the mean y of the points of a region that are present,
\* 0 when none is.
regionHeightOf(points) ==
  IF Len(points) = 0 THEN R(0)
  ELSE RDiv(RSumSeq(coordinates(points, 2)), R(Len(points)))

getRegionHeight(landmarks, indices) ==
  regionHeightOf(presentPoints(landmarks, indices))

RMax(a, b) == IF RGt(a, b) THEN a ELSE b

\* computeSymmetry.  sideWidth is the width of one eye, 0 when a corner is
\* absent; symmetryRatio the ratio of the two sides, 1 when a side is not
\* positive.
sideWidth(landmarks, idx1, idx2) ==
  IF Truthy(At(landmarks, idx1)) /\ Truthy(At(landmarks, idx2))
  THEN distance3D(At(landmarks, idx1), At(landmarks, idx2))
  ELSE R(0)

symmetryRatioUnguarded(left, right) ==
  RSub(R(1), RDiv(RAbs(RSub(left, right)), RMax(left, right)))
symmetryRatio(left, right) ==
  IF RGt(left, R(0)) /\ RGt(right, R(0))
  THEN RSub(R(1), RDiv(RAbs(RSub(left, right)), RMax(left, right)))
  ELSE R(1)

symmetryAsFraction(eyeSymmetry, browSymmetry, overall) ==
  [ overall  |-> overall,
    eyes     |-> eyeSymmetry,
    eyebrows |-> browSymmetry,
    score    |-> overall ]
symmetryWith(eyeSymmetry, browSymmetry, overall) ==
  [ overall  |-> overall,
    eyes     |-> eyeSymmetry,
    eyebrows |-> browSymmetry,
    score    |-> RMul(overall, R(100)) ]

symmetryOfEyesOnly(eyeSymmetry, browSymmetry) ==
  symmetryWith(eyeSymmetry, browSymmetry, eyeSymmetry)
symmetryOfRatios(eyeSymmetry, browSymmetry) ==
  symmetryWith(eyeSymmetry, browSymmetry,
               RDiv(RAdd(eyeSymmetry, browSymmetry), R(2)))

computeSymmetry(landmarks) ==
  symmetryOfRatios(
    symmetryRatio(sideWidth(landmarks, 33, 133),
                  sideWidth(landmarks, 263, 362)),
    symmetryRatio(getRegionHeight(landmarks, FACIAL_REGIONS.LEFT_EYEBROW),
                  getRegionHeight(landmarks, FACIAL_REGIONS.RIGHT_EYEBROW)))

\* Math.acos on the cosines the frames of the model produce: the edges of a
\* region run along the coordinate axes, so that two edges in a row point
\* the same way, at a right angle, or in opposite ways.  Math.acos(NaN) is
\* NaN.
acos(c) ==
  CASE c = NaN   -> NaN
    [] c = R(1)  -> R(0)
    [] c = R(0)  -> Num(1571, -3)
    [] c = R(-1) -> Num(3142, -3)

\* Math.max(-1, Math.min(1, cosAngle))
clampUnit(c) ==
  IF RLt(c, R(-1)) THEN R(-1) ELSE IF RGt(c, R(1)) THEN R(1) ELSE c

edge(from, to) ==
  <<RSub(to[1], from[1]), RSub(to[2], from[2]), RSub(to[3], from[3])>>

dotOf(v1, v2) ==
  RAdd(RAdd(RMul(v1[1], v2[1]), RMul(v1[2], v2[2])), RMul(v1[3], v2[3]))

edgeLength(v) == RSqrt(dotOf(v, v))

\* computeCurvature: what one turn of the loop adds to totalDeviation, for
\* the edges v1 and v2 that meet at points[i] (nothing when an edge has no
\* length).
angleOf(dot, len1, len2) ==
  IF RGt(len1, R(0)) /\ RGt(len2, R(0))
  THEN acos(clampUnit(RDiv(dot, RMul(len1, len2))))
  ELSE R(0)

angleBetween(v1, v2) == angleOf(dotOf(v1, v2), edgeLength(v1), edgeLength(v2))

deviations(points) ==
  [i \in 1..(Len(points) - 2) |->
     angleBetween(edge(points[i], points[i + 1]),
                  edge(points[i + 1], points[i + 2]))]

curvatureOfPoints(points) ==
  IF Len(points) < 3 THEN R(0)
  ELSE RDiv(RSumSeq(deviations(points)), R(Len(points) - 2))

computeCurvature(landmarks, indices) ==
  IF Len(indices) < 3 THEN R(0)
  ELSE curvatureOfPoints(presentPoints(landmarks, indices))

computeRegionalCurvature(landmarks) ==
  [ noseBridge |-> computeCurvature(landmarks, FACIAL_REGIONS.NOSE.bridge),
    leftCheek  |-> computeCurvature(landmarks, FACIAL_REGIONS.LEFT_CHEEK),
    rightCheek |-> computeCurvature(landmarks, FACIAL_REGIONS.RIGHT_CHEEK),
    jawLeft    |-> computeCurvature(landmarks, FACIAL_REGIONS.JAW.left),
    jawRight   |-> computeCurvature(landmarks, FACIAL_REGIONS.JAW.right),
    chin       |-> computeCurvature(landmarks, FACIAL_REGIONS.JAW.chin) ]

\* normalizeToFaceSize: scale = distances.EYE_TO_EYE || 1.
scaleOfOne(distances) == R(1)
scaleOf(distances) ==
  IF "EYE_TO_EYE" \in DOMAIN distances
     /\ TruthyNumber(distances["EYE_TO_EYE"])
  THEN distances["EYE_TO_EYE"] ELSE R(1)

normalizeBySumOfScale(distances, scale) ==
  [key \in DOMAIN distances |-> RDiv(distances[key], RAdd(scale, R(1)))]
normalizeByScale(distances, scale) ==
  [key \in DOMAIN distances |-> RDiv(distances[key], scale)]

normalizeToFaceSize(distances) ==
  normalizeByScale(distances, scaleOf(distances))

\* value.toFixed(2): the number of hundredths nearest to the value, the
\* larger of two that are equally near.
RECURSIVE toFixed2(_)
toFixed2(value) ==
  IF ~IsNum(value) THEN value
  ELSE IF value.m < 0 THEN -toFixed2(RNeg(value))
  ELSE IF value.e >= -2 THEN value.m * Pow10(value.e + 2)
  ELSE IF value.e < -6 THEN 0
  ELSE (value.m + Pow10(-2 - value.e) \div 2) \div Pow10(-2 - value.e)

\* validateAnatomy: the checks in the order of the object literal, and the
\* warnings one check pushes.  A value that is absent (undefined) is neither
\* less than min nor greater than max.  A warning is modelled by the parts
\* of its text.
anatomyChecks(normalizedDistances) ==
  << [ name |-> "mouthWidth", min |-> Frac(12, 10), max |-> R(2),
       value |-> IF "MOUTH_WIDTH" \in DOMAIN normalizedDistances
                 THEN normalizedDistances["MOUTH_WIDTH"] ELSE Undefined ],
     [ name |-> "noseWidth", min |-> Frac(6, 10), max |-> Frac(12, 10),
       value |-> IF "NOSE_WIDTH" \in DOMAIN normalizedDistances
                 THEN normalizedDistances["NOSE_WIDTH"] ELSE Undefined ],
     [ name |-> "faceHeight", min |-> R(3), max |-> R(5),
       value |-> IF "FACE_HEIGHT" \in DOMAIN normalizedDistances
                 THEN normalizedDistances["FACE_HEIGHT"] ELSE Undefined ] >>

warningsOfInclusive(check) ==
  IF RLe(check.value, check.min)
  THEN << [name |-> check.name, is |-> "too small",
           value |-> toFixed2(check.value), bound |-> check.min] >>
  ELSE IF RGt(check.value, check.max)
  THEN << [name |-> check.name, is |-> "too large",
           value |-> toFixed2(check.value), bound |-> check.max] >>
  ELSE <<>>
warningsOf(check) ==
  IF RLt(check.value, check.min)
  THEN << [name |-> check.name, is |-> "too small",
           value |-> toFixed2(check.value), bound |-> check.min] >>
  ELSE IF RGt(check.value, check.max)
  THEN << [name |-> check.name, is |-> "too large",
           value |-> toFixed2(check.value), bound |-> check.max] >>
  ELSE <<>>

validationOfWarnings(warnings) ==
  [valid |-> Len(warnings) = 0, warnings |-> warnings]

validationOfChecks(checks) ==
  validationOfWarnings(warningsOf(checks[1]) \o warningsOf(checks[2])
                         \o warningsOf(checks[3]))

validateAnatomy(normalizedDistances) ==
  validationOfChecks(anatomyChecks(normalizedDistances))

\* getRegionCenters: computeCenter is the mean of the points of a region that
\* are present, null when none is.
centerOfPoints(points) ==
  IF Len(points) = 0 THEN Null
  ELSE << RDiv(RSumSeq(coordinates(points, 1)), R(Len(points))),
          RDiv(RSumSeq(coordinates(points, 2)), R(Len(points))),
          RDiv(RSumSeq(coordinates(points, 3)), R(Len(points))) >>

computeCenter(landmarks, indices) ==
  centerOfPoints(presentPoints(landmarks, indices))

getRegionCenters(landmarks) ==
  [ leftEye    |-> computeCenter(landmarks, FACIAL_REGIONS.LEFT_EYE.outer),
    rightEye   |-> computeCenter(landmarks, FACIAL_REGIONS.RIGHT_EYE.outer),
    nose       |-> computeCenter(landmarks, FACIAL_REGIONS.NOSE.bridge),
    mouth      |-> computeCenter(landmarks,
                                 FACIAL_REGIONS.MOUTH.outer_upper
                                   \o FACIAL_REGIONS.MOUTH.outer_lower),
    leftCheek  |-> computeCenter(landmarks, FACIAL_REGIONS.LEFT_CHEEK),
    rightCheek |-> computeCenter(landmarks, FACIAL_REGIONS.RIGHT_CHEEK) ]


(***************************************************************************)
(* FacePoseEstimator: pure helpers                                         *)
(***************************************************************************)
\* class Vector3
Vector3(x, y, z) == [x |-> x, y |-> y, z |-> z]

\* Vector3.fromArray(arr) reads arr[0]: for an absent landmark (undefined or
\* null) that is a TypeError, which nothing in the two classes catches.
Thrown == [js |-> "TypeError"]

fromArray(arr) == IF Truthy(arr) THEN Vector3(arr[1], arr[2], arr[3]) ELSE Thrown

subtract(u, v) == Vector3(RSub(u.x, v.x), RSub(u.y, v.y), RSub(u.z, v.z))

vlength(u) ==
  RSqrt(RAdd(RAdd(RMul(u.x, u.x), RMul(u.y, u.y)), RMul(u.z, u.z)))

\* normalize: `len` is the constant of the code, bound once as a parameter.
normalizeBy(u, len) ==
  IF RIsZero(len) THEN Vector3(R(0), R(0), R(0))
  ELSE Vector3(RDiv(u.x, len), RDiv(u.y, len), RDiv(u.z, len))

normalize(u) == normalizeBy(u, vlength(u))

cross(u, v) ==
  Vector3(RSub(RMul(u.y, v.z), RMul(u.z, v.y)),
          RSub(RMul(u.z, v.x), RMul(u.x, v.z)),
          RSub(RMul(u.x, v.y), RMul(u.y, v.x)))

\* computeFaceAxes.  Each constant of the code is bound once, as the parameter
\* of the operator that holds the statements after it:
\*   axesFromForward    vertical = forward.cross(horizontal).normalize() and
\*                      the returned object;
\*   axesFromHorizontal forward = horizontal.cross(verticalRaw).normalize().
axesFromForward(horizontal, forward) ==
  [ right   |-> horizontal,
    up      |-> normalize(cross(forward, horizontal)),
    forward |-> forward ]

axesFromRawVertical(horizontal, verticalRaw) ==
  [ right   |-> horizontal,
    up      |-> verticalRaw,
    forward |-> normalize(cross(horizontal, verticalRaw)) ]

axesFromHorizontal(horizontal, verticalRaw) ==
  axesFromForward(horizontal, normalize(cross(horizontal, verticalRaw)))

computeFaceAxes(leftEye, rightEye, noseTip, chin) ==
  axesFromHorizontal(normalize(subtract(rightEye, leftEye)),
                     normalize(subtract(chin, noseTip)))

\* buildRotationMatrix: the columns are the face axes.  Row and column i of
\* the code are row and column i + 1 here.
buildRotationMatrix(axes) ==
  << <<axes.right.x, axes.up.x, axes.forward.x>>,
     <<axes.right.y, axes.up.y, axes.forward.y>>,
     <<axes.right.z, axes.up.z, axes.forward.z>> >>

\* Math.atan2(y, x) * 180 / Math.PI on the directions the frames of the model
\* produce: quarter turns of the head, where one of y and x is 0, and the
\* turns in the image plane by 20 degrees to either side (cosine 0.9397, sine
\* 0.3420) and by the angle of the 3-4-5 triangle (36.87 degrees).  (The
\* direction y = 0, x < 0 is left out: its angle is 180 or -180 by the sign
\* of the zero.)  Both arguments are 0 for a component of the zero vector
\* that normalize() returns for a vector of length 0, `new Vector3(0, 0, 0)`:
\* x is +0 there and the angle is 0.
atan2Degrees(y, x) ==
  CASE RIsZero(y) /\ RGt(x, R(0)) -> R(0)
    [] RIsZero(y) /\ RIsZero(x)   -> R(0)
    [] RGt(y, R(0)) /\ RIsZero(x) -> R(90)
    [] RLt(y, R(0)) /\ RIsZero(x) -> R(-90)
    [] y = Frac(3420, 10000) /\ x = Frac(9397, 10000)  -> R(20)
    [] y = Frac(-3420, 10000) /\ x = Frac(9397, 10000) -> R(-20)
    [] y = Frac(6, 10) /\ x = Frac(8, 10)              -> Num(3687, -2)

\* extractEulerAngles, in degrees: the branches on `singular`, for the sy
\* computed from the first column.
eulerAnglesWith(Rm, sy) ==
  IF ~RLt(sy, Frac(1, 1000000))
  THEN [ yaw   |-> atan2Degrees(Rm[2][1], Rm[1][1]),
         pitch |-> atan2Degrees(RNeg(Rm[3][1]), sy),
         roll  |-> atan2Degrees(Rm[3][2], Rm[3][3]) ]
  ELSE [ yaw   |-> atan2Degrees(RNeg(Rm[1][2]), Rm[2][2]),
         pitch |-> atan2Degrees(RNeg(Rm[3][1]), sy),
         roll  |-> R(0) ]

extractEulerAngles(Rm) ==
  eulerAnglesWith(Rm, RSqrt(RAdd(RMul(Rm[1][1], Rm[1][1]),
                                 RMul(Rm[2][1], Rm[2][1]))))

\* applyRotation(point, matrix)
applyRotation(point, matrix) ==
  LET row(i) == RAdd(RAdd(RMul(matrix[i][1], point[1]),
                          RMul(matrix[i][2], point[2])),
                     RMul(matrix[i][3], point[3]))
  IN  <<row(1), row(2), row(3)>>

\* getStabilizationMatrix(rotationMatrix): the transpose, in new arrays.
getStabilizationMatrixAsIs(rotationMatrix) == rotationMatrix
getStabilizationMatrix(rotationMatrix) ==
  << <<rotationMatrix[1][1], rotationMatrix[2][1], rotationMatrix[3][1]>>,
     <<rotationMatrix[1][2], rotationMatrix[2][2], rotationMatrix[3][2]>>,
     <<rotationMatrix[1][3], rotationMatrix[2][3], rotationMatrix[3][3]>> >>

\* The part of estimatePose that reads the frame only: anchors, axes,
\* rotation matrix and raw angles.
poseOfMatrix(axes, rotationMatrix) ==
  [ axes           |-> axes,
    rotationMatrix |-> rotationMatrix,
    rawAngles      |-> extractEulerAngles(rotationMatrix) ]

poseOfAxes(axes) == poseOfMatrix(axes, buildRotationMatrix(axes))

\* The six anchors estimatePose converts with Vector3.fromArray, in the order
\* of the statements.
readAnchors == <<"LEFT_EYE", "RIGHT_EYE", "NOSE_TIP", "CHIN",
                 "LEFT_EYE_INNER", "RIGHT_EYE_INNER">>

anchorsOf(landmarks) ==
  [i \in 1..Len(readAnchors) |->
     fromArray(At(landmarks, POSE_ANCHORS[readAnchors[i]]))]

poseOfAnchors(anchors) ==
  IF \E i \in 1..Len(anchors) : anchors[i] = Thrown THEN Thrown
  ELSE poseOfAxes(computeFaceAxes(anchors[1], anchors[2], anchors[3],
                                  anchors[4]))

framePose(landmarks) == poseOfAnchors(anchorsOf(landmarks))

\* class ExponentialSmoother, constructed with alpha = 0.3: smooth(newValue)
\* on a smoother holding `value`; the result is both the value the smoother
\* holds afterwards and the value returned.
alpha == Frac(3, 10)

smoothNothing(value, newValue) == newValue
smoothFromZero(value, newValue) ==
  RAdd(RMul(alpha, newValue),
       RMul(RSub(R(1), alpha), IF value = Null THEN R(0) ELSE value))
smooth(value, newValue) ==
  IF value = Null THEN newValue
  ELSE RAdd(RMul(alpha, newValue), RMul(RSub(R(1), alpha), value))

\* computeStability, on a poseHistory.  computeVariance (which returns the
\* standard deviation) takes the mean of the values and then the mean of the
\* squared distances from it; each is bound once, as a parameter.
square(d) == RMul(d, d)

squaresAbout(values, mean) ==
  [i \in 1..Len(values) |-> square(RSub(values[i], mean))]

sampleStdAbout(values, mean) ==
  RSqrt(RDiv(RSumSeq(squaresAbout(values, mean)), R(Len(values) - 1)))
stdAbout(values, mean) ==
  RSqrt(RDiv(RSumSeq(squaresAbout(values, mean)), R(Len(values))))

computeVarianceOfZeroMean(values) == stdAbout(values, R(0))
computeVarianceOfSample(values) ==
  sampleStdAbout(values, RDiv(RSumSeq(values), R(Len(values))))
computeVariance(values) ==
  stdAbout(values, RDiv(RSumSeq(values), R(Len(values))))

\* const normalize = (std) => Math.min(std / 10, 1.0)
minOne(q) == IF RLt(q, R(1)) THEN q ELSE R(1)

normalizeStd(std) == minOne(RDiv(std, R(10)))

axisValues(history, axis) == [i \in 1..Len(history) |-> history[i][axis]]

stabilityOfStds(yawStd, pitchStd, rollStd) ==
  [ overall |-> normalizeStd(RDiv(RAdd(RAdd(yawStd, pitchStd), rollStd),
                                  R(3))),
    yaw     |-> normalizeStd(yawStd),
    pitch   |-> normalizeStd(pitchStd),
    roll    |-> normalizeStd(rollStd) ]

computeStability(history) ==
  IF Len(history) < 5
  THEN [overall |-> R(1), yaw |-> R(1), pitch |-> R(1), roll |-> R(1)]
  ELSE stabilityOfStds(computeVariance(axisValues(history, "yaw")),
                       computeVariance(axisValues(history, "pitch")),
                       computeVariance(axisValues(history, "roll")))

(***************************************************************************)
(* Input frames                                                            *)
(*                                                                         *)
(* An upright synthetic face in image coordinates (y grows downwards),     *)
(* all landmarks in the plane z = 0: the eye corners on the line y = 0,    *)
(* forehead, nose and chin on the line x = 0.  The parameters of a face    *)
(* move single landmarks along these lines, so that every distance is a    *)
(* whole number (and every percent change below is computed without        *)
(* rounding in IEEE doubles as well).                                      *)
(***************************************************************************)
\* A point with whole coordinates.  The faces are laid out in whole numbers,
\* which Numbers turns into the numbers of the model.
P(x, y, z) == <<x, y, z>>

Numbers(points) ==
  [i \in DOMAIN points |->
     <<R(points[i][1]), R(points[i][2]), R(points[i][3])>>]

OnAll(indices, point) == [i \in SeqRange(indices) |-> point]

\* The landmarks of a list one step apart on a line in the plane z = 0, the
\* first at (x, y).  (Every index occurs once in the lists this is used on.)
AlongLine(indices, x, y, stepX, stepY) ==
  [i \in SeqRange(indices) |->
     LET k == (CHOOSE n \in 1..Len(indices) : indices[n] = i) - 1
     IN  P(x + k * stepX, y + k * stepY, 0)]

\* The nose bridge below landmark 6 (at the origin), landmarks 197, 195 and
\* 5: straight down; with two right-angled bends; or with landmark 197 on
\* landmark 6 (an edge without length) and one right-angled bend.
Bridge(shape) ==
  CASE shape = "straight" ->
         (197 :> P(0, 2, 0)) @@ (195 :> P(0, 4, 0)) @@ (5 :> P(0, 5, 0))
    [] shape = "bent" ->
         (197 :> P(0, 2, 0)) @@ (195 :> P(2, 2, 0)) @@ (5 :> P(2, 5, 0))
    [] shape = "folded" ->
         (197 :> P(0, 0, 0)) @@ (195 :> P(2, 0, 0)) @@ (5 :> P(2, 5, 0))

FacePoints(e) ==
     (33  :> P(-5, 0, 0))            @@ (133 :> P(-2, 0, 0))
  @@ (362 :> P(2, 0, 0))             @@ (263 :> P(e.eyeR, 0, 0))
  @@ (10  :> P(0, -16, 0))           @@ (6   :> P(0, 0, 0))
  @@ (1   :> P(0, 6, 0))             @@ (2   :> P(0, e.noseBase, 0))
  @@ (152 :> P(0, 24, 0))
  @@ (220 :> P(-5, 7, 0))            @@ (440 :> P(e.noseR, 7, 0))
  @@ (61  :> P(-10, 14, 0))          @@ (291 :> P(e.mouthR, 14, 0))
  @@ (13  :> P(0, 14 - e.open, 0))   @@ (14  :> P(0, 14 + e.open, 0))
  @@ OnAll(FACIAL_REGIONS.LEFT_EYE.upper,  P(-4, -e.eyeH, 0))
  @@ OnAll(FACIAL_REGIONS.LEFT_EYE.lower,  P(-4, 0, 0))
  @@ OnAll(FACIAL_REGIONS.RIGHT_EYE.upper, P(4, -e.eyeH, 0))
  @@ OnAll(FACIAL_REGIONS.RIGHT_EYE.lower, P(4, 0, 0))
  @@ OnAll(FACIAL_REGIONS.LEFT_EYEBROW,  P(-4, e.browL, 0))
  @@ OnAll(FACIAL_REGIONS.RIGHT_EYEBROW, P(4, e.browR, 0))
  @@ Bridge(e.bridge)
  @@ OnAll(FACIAL_REGIONS.MOUTH.outer_upper, P(0, 13, 0))
  @@ OnAll(FACIAL_REGIONS.MOUTH.outer_lower, P(0, 15, 0))
  @@ AlongLine(FACIAL_REGIONS.JAW.left, -10, 24, 1, 0)
  @@ AlongLine(FACIAL_REGIONS.JAW.right, 10, 24, -1, 0)
  @@ AlongLine(FACIAL_REGIONS.LEFT_CHEEK, -8, 4, 0, 1)
  @@ AlongLine(FACIAL_REGIONS.RIGHT_CHEEK, 8, 4, 0, 1)

WithoutAll(points, absent) == [i \in DOMAIN points \ absent |-> points[i]]

\* The face moved by the vector by.
Moved(points, by) ==
  [i \in DOMAIN points |->
     <<points[i][1] + by[1], points[i][2] + by[2], points[i][3] + by[3]>>]

\* "neutral": inter-eye distance 10, eye widths 3, nose height 10, nose width
\*   10, mouth width 20, lower third 14, closed mouth (MOUTH_HEIGHT =
\*   MOUTH_OPENNESS = 0), eye height 2.
\* "shifted": against neutral, inter-eye distance +20 percent (12), mouth
\*   width +10 percent exactly (22), nose width -10 percent exactly (9), nose
\*   height -20 percent (8), lower third +14.3 percent (16).
\* "open": the neutral face with the mouth open by 4 and the landmark of the
\*   right nose wing (440) missing, so that NOSE_WIDTH is not measured.
\* "wide": the neutral face with a mouth 30 wide and a nose 5 wide (against
\*   the inter-eye distance of 10: 3.0 and 0.5), and a bent nose bridge.
\* "oneEyed": the neutral face with the outer corner of the right eye on that
\*   of the left eye (inter-eye distance 0), the left eyebrow at the height
\*   0, and a folded nose bridge.
\* "lowered": the neutral face moved down by 20, with the left eyebrow one
\*   above the right (eyebrow heights 15 and 16).
\* "sideways": the neutral face with the outer eye corners on the line from
\*   nose to chin, at (0, -5, 0) and (0, 5, 0).
\* "huge": the neutral face 10^200 times as large: every coordinate is finite,
\*   and the square of every distance is beyond the largest number.
\* "sparse": the neutral face without the outer corner of the left eye (33),
\*   the top of the mouth (13), the right eyebrow, two landmarks of the nose
\*   bridge, the left upper eyelid, and the left cheek.
\* The eyebrows are at the height y = browL and y = browR.
NeutralFace == [eyeR |-> 5, noseR |-> 5, noseBase |-> 10, mouthR |-> 10,
                open |-> 0, eyeH |-> 2, browL |-> -4, browR |-> -4,
                bridge |-> "straight"]
ShiftedFace == [eyeR |-> 7, noseR |-> 4, noseBase |-> 8, mouthR |-> 12,
                open |-> 0, eyeH |-> 2, browL |-> -4, browR |-> -4,
                bridge |-> "straight"]
OpenFace    == [eyeR |-> 5, noseR |-> 5, noseBase |-> 10, mouthR |-> 10,
                open |-> 2, eyeH |-> 2, browL |-> -4, browR |-> -4,
                bridge |-> "straight"]
WideFace    == [eyeR |-> 5, noseR |-> 0, noseBase |-> 10, mouthR |-> 20,
                open |-> 0, eyeH |-> 2, browL |-> -4, browR |-> -4,
                bridge |-> "bent"]
OneEyedFace == [eyeR |-> -5, noseR |-> 5, noseBase |-> 10, mouthR |-> 10,
                open |-> 0, eyeH |-> 2, browL |-> 0, browR |-> -4,
                bridge |-> "folded"]
LoweredFace == [eyeR |-> 5, noseR |-> 5, noseBase |-> 10, mouthR |-> 10,
                open |-> 0, eyeH |-> 2, browL |-> -5, browR |-> -4,
                bridge |-> "straight"]

SidewaysPoints == (33 :> P(0, -5, 0)) @@ (263 :> P(0, 5, 0))

SparseAbsent ==
  {33, 13, 197, 195} \cup SeqRange(FACIAL_REGIONS.RIGHT_EYEBROW)
    \cup SeqRange(FACIAL_REGIONS.LEFT_EYE.upper)
    \cup SeqRange(FACIAL_REGIONS.LEFT_CHEEK)

\* A turn in the image plane, (x, y, z) -> (c x - s y, s x + c y, z), by the
\* angle of cosine c and sine s; and the quarter turns about the vertical
\* axis, (x, y, z) -> (z, y, -x), and about the horizontal axis, (x, y, z) ->
\* (x, -z, y).  The turns are named by the raw angles estimatePose extracts
\* from the turned neutral face.
TurnYawBy(c, s) == << <<c, RNeg(s), R(0)>>, <<s, c, R(0)>>,
                      <<R(0), R(0), R(1)>> >>
TurnPitch90 == << <<R(0), R(0), R(1)>>, <<R(0), R(1), R(0)>>,
                  <<R(-1), R(0), R(0)>> >>
TurnRoll90  == << <<R(1), R(0), R(0)>>, <<R(0), R(0), R(-1)>>,
                  <<R(0), R(1), R(0)>> >>

Turned(points, matrix) ==
  [i \in DOMAIN points |-> applyRotation(points[i], matrix)]

\* The faces the analyzer is shown, and the faces the pose estimator is shown.
FaceIds     == {"neutral", "shifted", "open"}

\* Frames of 468 entries that are implausible, degenerate, incomplete or out
\* of proportion.
OddFaceIds == {"wide", "oneEyed", "lowered", "sideways", "sparse", "huge"}
PoseFaceIds == {"neutral", "yaw90", "pitch90", "roll90"}

\* The faces shown where the stability of the pose is examined: the head
\* upright, nodding by a quarter turn, leaning 20 degrees to either side, and
\* leaning by 36.87 degrees.
SteadyFaceIds == {"neutral", "pitch90", "swayLeft", "swayRight", "tilted"}

\* Inputs that are no frame of 468 landmarks: null, undefined, an empty array
\* and an array one landmark short.
RejectIds == {"null", "undefined", "empty", "short"}

\* How the array of a name is made: the parameters of its face, the landmarks
\* put elsewhere, the vector the face is moved by, the landmarks left out,
\* and the turn of the head.
ShapeOf(id) ==
  CASE id \in {"shifted", "short"} -> ShiftedFace
    [] id = "open"    -> OpenFace
    [] id = "wide"    -> WideFace
    [] id = "oneEyed" -> OneEyedFace
    [] id = "lowered" -> LoweredFace
    [] OTHER          -> NeutralFace

PutOf(id) == IF id = "sideways" THEN SidewaysPoints ELSE <<>>

MovedBy(id) == IF id = "lowered" THEN P(0, 20, 0) ELSE P(0, 0, 0)

AbsentOf(id) ==
  CASE id = "open"   -> {440}
    [] id = "sparse" -> SparseAbsent
    [] OTHER         -> {}

TurnedIds == {"yaw90", "pitch90", "roll90", "swayLeft", "swayRight", "tilted"}

TurnOf(id) ==
  CASE id = "yaw90"     -> TurnYawBy(R(0), R(1))
    [] id = "pitch90"   -> TurnPitch90
    [] id = "roll90"    -> TurnRoll90
    [] id = "swayLeft"  -> TurnYawBy(Frac(9397, 10000), Frac(-3420, 10000))
    [] id = "swayRight" -> TurnYawBy(Frac(9397, 10000), Frac(3420, 10000))
    [] id = "tilted"    -> TurnYawBy(Frac(8, 10), Frac(6, 10))

Upright(id) ==
  Numbers(WithoutAll(Moved(PutOf(id) @@ FacePoints(ShapeOf(id)), MovedBy(id)),
                     AbsentOf(id)))

\* Every coordinate times 10^k.
Enlarged(points, k) ==
  [i \in DOMAIN points |->
     <<RMul(points[i][1], Num(1, k)), RMul(points[i][2], Num(1, k)),
       RMul(points[i][3], Num(1, k))>>]

\* FaceMeshSurface builds centeredLandmarks from the frame: every landmark
\* minus the centroid of the frame, divided by `scale`, with y and z negated;
\* and, when stabilize is on and estimatePose returned a pose, turned by the
\* stabilization matrix of that pose.  The centroid is the mean of all the
\* landmarks of the frame; the landmarks no method reads are taken to lie so
\* that it is the point (0, 4, 0).
scale == 160

CentroidOf(id) == <<R(0), R(4), R(0)>>

centeredLandmark(landmark, centroid) ==
  <<RDiv(RSub(landmark[1], centroid[1]), R(scale)),
    RDiv(RNeg(RSub(landmark[2], centroid[2])), R(scale)),
    RDiv(RNeg(RSub(landmark[3], centroid[3])), R(scale))>>

centerLandmarks(points, centroid) ==
  [i \in DOMAIN points |-> centeredLandmark(points[i], centroid)]

\* The centered copy turned by the stabilization matrix of a pose.
stabilizeLandmarks(centered, pose) ==
  Turned(centered, getStabilizationMatrix(pose.rotationMatrix))

\* The frames the backend reports for the faces it tracks, and the arrays
\* FaceMeshSurface makes of them.  Both frames show the head upright: the
\* stabilization matrix of their pose is the identity, and the copy made with
\* stabilize on holds the numbers of the copy made with stabilize off
\* (UprightFramesStayPut, below).  One array per frame therefore stands for
\* both.
SurfaceIds == {"neutral", "shifted"}
CenteredIds == {"neutralCentered", "shiftedCentered"}

CenteredId(id) ==
  IF id = "neutral" THEN "neutralCentered" ELSE "shiftedCentered"

\* The frame an array is made of.
FrameOf(id) ==
  CASE id = "neutralCentered" -> "neutral"
    [] id = "shiftedCentered" -> "shifted"
    [] OTHER -> id

Placed(id, points) ==
  IF id \in TurnedIds THEN Turned(points, TurnOf(id))
  ELSE IF id = "huge" THEN Enlarged(points, 200)
  ELSE IF id \in CenteredIds
  THEN centerLandmarks(points, CentroidOf(FrameOf(id)))
  ELSE points

PointsOf(id) == Placed(id, Upright(FrameOf(id)))

\* The array one landmark short holds every landmark the code reads (the
\* largest index read is 466): only its length is wrong.
LengthOf(id) ==
  CASE id = "empty" -> 0
    [] id = "short" -> MinLandmarksLess
    [] OTHER        -> MinLandmarks

ArrayOf(id) ==
  [ref |-> id, length |-> LengthOf(id),
   pt |-> IF id = "empty" THEN <<>> ELSE PointsOf(id)]

LandmarksOf ==
  [id \in FaceIds \cup OddFaceIds \cup PoseFaceIds \cup SteadyFaceIds
           \cup RejectIds \cup CenteredIds |->
     CASE id = "null"      -> Null
       [] id = "undefined" -> Undefined
       [] OTHER            -> ArrayOf(id)]

\* computeDistances, normalizeToFaceSize and framePose tabulated over the
\* arrays of the model (the latter over the arrays that hold the pose
\* anchors), so that they are evaluated once per array and not once per step.
ArrayIds == FaceIds \cup OddFaceIds \cup PoseFaceIds \cup SteadyFaceIds
              \cup {"empty", "short"} \cup CenteredIds

\* The arrays shown to the analyzer (the faces turned by other than quarter
\* turns are shown to the pose estimator only).
MeasuredIds == FaceIds \cup OddFaceIds \cup PoseFaceIds \cup {"empty", "short"}
                 \cup CenteredIds


distancesOf == [id \in ArrayIds |-> computeDistances(LandmarksOf[id])]

normalizedOf == [id \in ArrayIds |-> normalizeToFaceSize(distancesOf[id])]

symmetryOf == [id \in MeasuredIds |-> computeSymmetry(LandmarksOf[id])]

curvatureOf ==
  [id \in MeasuredIds |-> computeRegionalCurvature(LandmarksOf[id])]

validationOf == [id \in ArrayIds |-> validateAnatomy(normalizedOf[id])]

regionsOf == [id \in MeasuredIds |-> getRegionCenters(LandmarksOf[id])]

\* What analyze computes from the array it measures alone.
measuredOf ==
  [id \in MeasuredIds |->
     [ distances  |-> distancesOf[id],
       symmetry   |-> symmetryOf[id],
       curvature  |-> curvatureOf[id],
       normalized |-> normalizedOf[id],
       validation |-> validationOf[id],
       regions    |-> regionsOf[id] ]]

framePoseOf == [id \in ArrayIds \ {"empty"} |-> framePose(LandmarksOf[id])]

(***************************************************************************)
(* State                                                                   *)
(***************************************************************************)
VARIABLES
  measurementHistory,    \* FacialAnalyzer.measurementHistory
  baselineMeasurements,  \* FacialAnalyzer.baselineMeasurements
  yawSmoother,           \* FacePoseEstimator.yawSmoother.value
  pitchSmoother,         \* FacePoseEstimator.pitchSmoother.value
  rollSmoother,          \* FacePoseEstimator.rollSmoother.value
  poseHistory,           \* FacePoseEstimator.poseHistory
  analyzeRet,            \* what the last call of the analyzer returned
  poseRet,               \* what the last call of the pose estimator returned
  analyzed,              \* frames analyze accepted since construction / reset
  posed,                 \* frames estimatePose accepted since construction / reset
  analyzerSession,       \* what began the analyzer's session: "new" or "reset"
  poseSession,           \* what began the pose estimator's session
  given,                 \* the argument of a method that is called on its own
  got,                   \* what that call returned
  selectedCamera,        \* FaceMeshDisplay / EmotionDisplay: state selectedCamera
  isStreaming,           \* state isStreaming
  currentFrame,          \* state currentFrame
  facesData,             \* FaceMeshDisplay: state facesData
  lastNarration,         \* state lastNarration
  startRequests,         \* start requests the backend has not answered yet
  narrationTimers,       \* setTimeout callbacks of narrateZoneChange not yet run
  startedSinceStop,      \* the start button was clicked since the last stop
  spoken,                \* what speechSynthesis was told to speak, and timer runs
  surface,               \* whether a FaceMeshSurface (with its two objects) is mounted
  renderMode,            \* FaceMesh3D: state renderMode
  stabilize,             \* FaceMesh3D: state stabilize
  rerender,              \* FaceMesh3D has a state update to render
  submitted,             \* submissions of the frame the surface holds
  fed                    \* the face_ids whose frames the mounted objects were given

analyzerVars == <<measurementHistory, baselineMeasurements,
                  analyzeRet, analyzed, analyzerSession>>
poseVars     == <<yawSmoother, pitchSmoother, rollSmoother, poseHistory,
                  poseRet, posed, poseSession>>
callVars     == <<given, got>>
streamVars   == <<selectedCamera, isStreaming, currentFrame, startRequests,
                  startedSinceStop>>
narrationVars == <<lastNarration, narrationTimers, spoken>>
surfaceVars  == <<facesData, surface, renderMode, stabilize, rerender,
                  submitted, fed>>
uiVars       == <<streamVars, narrationVars, surfaceVars>>
vars         == <<analyzerVars, poseVars, callVars, uiVars>>

(***************************************************************************)
(* Bounds of the model                                                     *)
(***************************************************************************)
\* No session (the calls between two resets) accepts more than MaxFrames
\* frames.
MaxFrames == 37

\* How often, within one session, the measurements of a frame may differ from
\* those of the frame before it, and the number of frames at the start of a
\* session that may do so: frame i > MaxVaried measures what frame i - 1 did.
MaxChanges == 1
MaxVaried  == 11

\* The smoothed angles never settle once the head has turned (each frame
\* moves them by 0.3 of the remaining distance), so a session ends at most
\* MaxMoves accepted frames after the first frame whose raw angles differ
\* from those of the frame before it, that frame included.
MaxMoves == 3

(***************************************************************************)
(* FacialAnalyzer                                                          *)
(***************************************************************************)
NoChange == [hasChange |-> FALSE, changes |-> <<>>]

\* if (!this.baselineMeasurements)
needsBaselineAlways(baseline) == TRUE
needsBaseline(baseline) == ~Truthy(baseline)

\* if (this.measurementHistory.length >= 10)
warmedUpEarly(history) == Len(history) >= 6
warmedUp(history) == Len(history) >= 10

\* this.measurementHistory[5].distances (sequences start at 1)
baselineSampleBefore(history) == history[5].distances
baselineSample(history) == history[6].distances

\* ((value - baseline) / baseline) * 100
percentChange(value, baseline) ==
  RMul(RDiv(RSub(value, baseline), baseline), R(100))

\* Math.abs(percentChange) > 10
isSignificantSigned(pc) == RGt(pc, R(10))
isSignificantFrom10(pc) == ~RLt(RAbs(pc), R(10))
isSignificant(pc) == RGt(RAbs(pc), R(10))

\* detectExpressionChanges(currentDistances), run on the analyzer state
\* (history, baseline): the baseline it leaves and the object it returns.
\* `if (this.baselineMeasurements[key])` skips a key the baseline lacks and a
\* key whose baseline value is 0.  comparedKeys are the keys the loop
\* computes a percent change for, changesOf the object returned for the
\* percent changes pc, of which those of the keys in `significant` are
\* reported.
comparedKeys(base, currentDistances) ==
  {key \in DOMAIN currentDistances :
     key \in DOMAIN base /\ TruthyNumber(base[key])}

percentChanges(base, currentDistances) ==
  [key \in comparedKeys(base, currentDistances) |->
     percentChange(currentDistances[key], base[key])]

changesOf(base, currentDistances, pc, significant) ==
  [ baseline   |-> base,
    expression |->
      [ hasChange |-> significant # {},
        changes   |->
          [key \in significant |->
             [ current       |-> currentDistances[key],
               baseline      |-> base[key],
               percentChange |-> pc[key],
               direction     |-> IF RGt(pc[key], R(0)) THEN "increase"
                                                       ELSE "decrease" ]] ] ]

significantOf(base, currentDistances, pc) ==
  changesOf(base, currentDistances, pc,
            {key \in DOMAIN pc : isSignificant(pc[key])})

compareTo(base, currentDistances) ==
  significantOf(base, currentDistances,
                percentChanges(base, currentDistances))

detectExpressionChanges(history, baseline, currentDistances) ==
  IF Len(history) < 5
  THEN [baseline |-> baseline, expression |-> NoChange]
  ELSE IF needsBaseline(baseline) /\ ~warmedUp(history)
  THEN [baseline |-> baseline, expression |-> NoChange]
  ELSE compareTo(IF needsBaseline(baseline) THEN baselineSample(history)
                                            ELSE baseline,
                 currentDistances)

\* history.push(entry), then shift() once over the cap (both classes).
pushHistoryDropNewest(history, entry, cap) ==
  IF Len(history) + 1 > cap THEN history ELSE Append(history, entry)
pushHistory(history, entry, cap) ==
  LET pushed == Append(history, entry)
  IN  IF Len(pushed) > cap THEN Tail(pushed) ELSE pushed

\* Date.now(), a logical clock that ticks once per accepted frame.  The code
\* stores timestamps and never reads them, and resetBaseline drops every
\* stored timestamp, so the clock's origin is unobservable: time is measured
\* from the start of the session.
now == Len(analyzed)

\* analyze(landmarks, centeredLandmarks = null).  analyzeMeasured holds the
\* statements after detectExpressionChanges, for the measurements of the
\* array `points` and the outcome `detected` of detectExpressionChanges;
\* validation only adds a field to the returned object.
analyzeUnlessInvalid(measured, detected) ==
  /\ baselineMeasurements' = detected.baseline
  /\ measurementHistory' =
       IF measured.validation.valid
       THEN pushHistory(measurementHistory,
                        [timestamp |-> now, distances |-> measured.distances,
                         normalized |-> measured.normalized],
                        maxHistoryLength)
       ELSE measurementHistory
  /\ analyzeRet' = [ distances  |-> measured.distances,
                     symmetry   |-> measured.symmetry,
                     curvature  |-> measured.curvature,
                     expression |-> detected.expression,
                     normalized |-> measured.normalized,
                     validation |-> measured.validation,
                     regions    |-> measured.regions ]
analyzeMeasuredBefore(measured, detected) ==
  /\ baselineMeasurements' = detected.baseline
  /\ measurementHistory' =
       pushHistory(measurementHistory,
                   [timestamp |-> now, distances |-> measured.distances,
                    normalized |-> measured.normalized],
                   maxHistoryLength)
  /\ analyzeRet' = [ distances  |-> IF measurementHistory = <<>>
                                    THEN measured.distances
                                    ELSE measurementHistory[
                                           Len(measurementHistory)].distances,
                     symmetry   |-> measured.symmetry,
                     curvature  |-> measured.curvature,
                     expression |-> detected.expression,
                     normalized |-> measured.normalized,
                     validation |-> measured.validation,
                     regions    |-> measured.regions ]
analyzeMeasured(measured, detected) ==
  /\ baselineMeasurements' = detected.baseline
  /\ measurementHistory' =
       pushHistory(measurementHistory,
                   [timestamp |-> now, distances |-> measured.distances,
                    normalized |-> measured.normalized],
                   maxHistoryLength)
  /\ analyzeRet' = [ distances  |-> measured.distances,
                     symmetry   |-> measured.symmetry,
                     curvature  |-> measured.curvature,
                     expression |-> detected.expression,
                     normalized |-> measured.normalized,
                     validation |-> measured.validation,
                     regions    |-> measured.regions ]

analyzePoints(measured) ==
  analyzeMeasured(measured,
                  detectExpressionChanges(measurementHistory,
                                          baselineMeasurements,
                                          measured.distances))

analyze(landmarks, centeredLandmarks) ==
  IF ~Truthy(landmarks) \/ landmarks.length < MinLandmarks
  THEN /\ analyzeRet' = Null
       /\ UNCHANGED <<measurementHistory, baselineMeasurements>>
  ELSE analyzePoints(measuredOf[IF Truthy(centeredLandmarks)
                                THEN centeredLandmarks.ref
                                ELSE landmarks.ref])

\* resetBaseline()
resetBaselineOnly ==
  /\ baselineMeasurements' = Null
  /\ analyzeRet' = Undefined
  /\ UNCHANGED measurementHistory
resetBaseline ==
  /\ baselineMeasurements' = Null
  /\ measurementHistory' = <<>>
  /\ analyzeRet' = Undefined

(***************************************************************************)
(* Calls of the analyzer                                                   *)
(***************************************************************************)
Accepts(id) ==
  Truthy(LandmarksOf[id]) /\ LandmarksOf[id].length >= MinLandmarks

\* The array analyze measures: centeredLandmarks || landmarks.
MeasuredId(l, c) == IF Truthy(LandmarksOf[c]) THEN c ELSE l

\* The argument lists of the modelled calls of analyze: every input with the
\* second argument omitted, and some with a second array.
AnalyzeArgs ==
  {<<l, "null">> : l \in FaceIds \cup RejectIds}
    \cup {<<"neutral", "shifted">>, <<"short", "neutral">>}

\* The frames of a session whose measurements differ from the frame before.
ChangesAt(log) ==
  {i \in 2..Len(log) :
     distancesOf[log[i].points] # distancesOf[log[i - 1].points]}

WithinBudget(log) ==
  /\ Cardinality(ChangesAt(log)) <= MaxChanges
  /\ \A i \in ChangesAt(log) : i <= MaxVaried

Analyze(l, c) ==
  /\ Accepts(l) =>
       /\ Len(analyzed) < MaxFrames
       /\ WithinBudget(Append(analyzed, [timestamp |-> now,
                                         points |-> MeasuredId(l, c)]))
  /\ analyze(LandmarksOf[l], LandmarksOf[c])
  /\ analyzed' = IF Accepts(l)
                 THEN Append(analyzed, [timestamp |-> now,
                                        points |-> MeasuredId(l, c)])
                 ELSE analyzed
  /\ UNCHANGED analyzerSession

ResetBaseline ==
  /\ resetBaseline
  /\ analyzed' = <<>>
  /\ analyzerSession' = "reset"

(***************************************************************************)
(* FacePoseEstimator                                                       *)
(***************************************************************************)
\* estimatePose(landmarks).  The returned object is modelled by its fields
\* axes, rotationMatrix, rawAngles and smoothedAngles (and stability, below).
\* estimateSmoothed holds the statements from the push on, for the pose of
\* the frame and its smoothed angles.
estimateSmoothed(pose, smoothedAngles) ==
  /\ yawSmoother' = smoothedAngles.yaw
  /\ pitchSmoother' = smoothedAngles.pitch
  /\ rollSmoother' = smoothedAngles.roll
  /\ poseHistory' = pushHistory(poseHistory, smoothedAngles,
                                maxHistoryLength)
  /\ poseRet' = [ axes           |-> pose.axes,
                  rotationMatrix |-> pose.rotationMatrix,
                  rawAngles      |-> pose.rawAngles,
                  smoothedAngles |-> smoothedAngles ]

estimateFrom(pose) ==
  IF pose = Thrown
  THEN /\ poseRet' = Thrown
       /\ UNCHANGED <<yawSmoother, pitchSmoother, rollSmoother, poseHistory>>
  ELSE estimateSmoothed(
         pose,
         [ yaw   |-> smooth(yawSmoother, pose.rawAngles.yaw),
           pitch |-> smooth(pitchSmoother, pose.rawAngles.pitch),
           roll  |-> smooth(rollSmoother, pose.rawAngles.roll) ])

estimatePose(landmarks) ==
  IF ~Truthy(landmarks) \/ landmarks.length < MinLandmarks
  THEN /\ poseRet' = Null
       /\ UNCHANGED <<yawSmoother, pitchSmoother, rollSmoother, poseHistory>>
  ELSE estimateFrom(framePoseOf[landmarks.ref])

\* The field `stability` of the object the last call of estimatePose returned:
\* computeStability() reads the poseHistory the call has just appended to,
\* and a call that returns an object is the last step to change poseHistory
\* for as long as poseRet holds that object.
stability == computeStability(poseHistory)

\* reset()
resetHistoryOnly ==
  /\ poseHistory' = <<>>
  /\ poseRet' = Undefined
  /\ UNCHANGED <<yawSmoother, pitchSmoother, rollSmoother>>
resetSmoothers ==
  /\ yawSmoother' = Null
  /\ pitchSmoother' = Null
  /\ rollSmoother' = Null
  /\ poseRet' = Undefined
  /\ UNCHANGED poseHistory
reset ==
  /\ yawSmoother' = Null
  /\ pitchSmoother' = Null
  /\ rollSmoother' = Null
  /\ poseHistory' = <<>>
  /\ poseRet' = Undefined

(***************************************************************************)
(* Calls of the pose estimator                                             *)
(***************************************************************************)
\* The frames of a session whose raw angles differ from the frame before.
TurnsAt(log) ==
  {i \in 2..Len(log) : log[i].rawAngles # log[i - 1].rawAngles}

\* The number of frames from the first turn of the head on.
Moves(log) ==
  IF TurnsAt(log) = {} THEN 0
  ELSE Len(log) + 1 - (CHOOSE i \in TurnsAt(log) : \A k \in TurnsAt(log) : i <= k)

RawAnglesOf(l) == framePoseOf[l].rawAngles

\* estimatePose returns a pose for the input: it has 468 entries or more and
\* holds the six anchors.
Estimable(l) == Accepts(l) /\ framePoseOf[l] # Thrown

EstimatePose(l) ==
  /\ Estimable(l) =>
       /\ Len(posed) < MaxFrames
       /\ Moves(Append(posed, [rawAngles |-> RawAnglesOf(l)])) <= MaxMoves
  /\ estimatePose(LandmarksOf[l])
  /\ posed' = IF Estimable(l)
              THEN Append(posed, [rawAngles |-> poseRet'.rawAngles,
                                  smoothedAngles |-> poseRet'.smoothedAngles])
              ELSE posed
  /\ UNCHANGED poseSession

Reset ==
  /\ reset
  /\ posed' = <<>>
  /\ poseSession' = "reset"

\* A head that sways: from the third frame of a session on, every frame
\* shows the raw angles of the frame two before it.  Such a session is not
\* cut short after the first turn of the head.
Sways(log) ==
  \A i \in 3..Len(log) : log[i].rawAngles = log[i - 2].rawAngles

EstimateSwaying(l) ==
  /\ Estimable(l) =>
       /\ Len(posed) < MaxFrames
       /\ Sways(Append(posed, [rawAngles |-> RawAnglesOf(l)]))
  /\ estimatePose(LandmarksOf[l])
  /\ posed' = IF Estimable(l)
              THEN Append(posed, [rawAngles |-> poseRet'.rawAngles,
                                  smoothedAngles |-> poseRet'.smoothedAngles])
              ELSE posed
  /\ UNCHANGED poseSession

(***************************************************************************)
(* A client of both objects                                                *)
(*                                                                         *)
(* The client submits every frame to the pose estimator and then to the    *)
(* analyzer, as FaceMeshSurface does (FaceMesh3D.jsx, lines 24 and 73),    *)
(* and resets both objects together.  A session of the client varies       *)
(* either the measurements or the head pose: a turn of the head counts as  *)
(* a change.                                                               *)
(***************************************************************************)
SubmitArgs ==
  {<<l, "null">> : l \in {"neutral", "shifted", "pitch90"} \cup RejectIds}
    \cup {<<"short", "neutral">>}

Submit(l, c) ==
  /\ Accepts(l) =>
       Cardinality(ChangesAt(Append(analyzed, [points |-> MeasuredId(l, c)])))
         + (IF TurnsAt(Append(posed, [rawAngles |-> RawAnglesOf(l)])) = {}
            THEN 0 ELSE 1)
           <= MaxChanges
  /\ EstimatePose(l)
  /\ Analyze(l, c)

ResetAll == Reset /\ ResetBaseline

(***************************************************************************)
(* A caller that shows every frame to both objects                         *)
(*                                                                         *)
(* The two objects share no state, so the order of the two calls does not  *)
(* matter, and an exception thrown by one call does not keep this caller   *)
(* from making the other.  The frames are whole faces and faces that are   *)
(* implausible, degenerate or incomplete; a session shows at most          *)
(* MaxChanges + 1 runs of equal frames.                                    *)
(***************************************************************************)
ShownIds == {"neutral", "open"} \cup OddFaceIds

\* The frames of a session that show another array than the frame before.
ShownAt(log) ==
  {i \in 2..Len(log) : log[i].points # log[i - 1].points}

Show(l) ==
  /\ Cardinality(ShownAt(Append(analyzed, [points |-> l]))) <= MaxChanges
  /\ EstimatePose(l)
  /\ Analyze(l, "null")

(***************************************************************************)
(* A caller that writes to the objects it is handed                        *)
(*                                                                         *)
(* analyze pushes {timestamp, distances, normalized} and returns           *)
(* {distances, ..., normalized, ...}: the object `distances` in the newest *)
(* entry of measurementHistory and the one in the result are the same      *)
(* object (facialAnalysis.js, lines 146-163).  estimatePose pushes         *)
(* smoothedAngles and returns it in the result (facePoseEstimation.js,     *)
(* lines 147 and 160).  An assignment through the result is therefore an   *)
(* assignment to the entry.  The baseline is the object of the sixth       *)
(* frame, taken when the eleventh is analyzed, and so never the object of  *)
(* the newest result.                                                      *)
(*                                                                         *)
(* The caller writes to the result of the call it has just made, and only  *)
(* during the first MaxTamperedFrame frames of a session whose persisted   *)
(* state no write has changed yet.                                         *)
(***************************************************************************)
\* A call returned a result: analyze and estimatePose return null for a
\* rejected frame, and the resets return nothing (undefined).
Accepted(ret) == ret # Null /\ ret # Undefined /\ ret # Thrown

MaxTamperedFrame == 7

TamperedKeys == {"EYE_TO_EYE"}
TamperedAxes == {"yaw"}
TamperValues == {R(1)}

\* The persisted state is what the frames of the session produced.
HistoryAsMeasured ==
  \A k \in 1..Len(measurementHistory) :
     measurementHistory[k].distances
       = distancesOf[analyzed[Len(analyzed) - Len(measurementHistory) + k].points]

PoseHistoryAsSmoothed ==
  \A k \in 1..Len(poseHistory) :
     poseHistory[k] = posed[Len(posed) - Len(poseHistory) + k].smoothedAngles

\* result.distances[key] = value, for the result of the last call of analyze.
TamperDistances(key, value) ==
  /\ Accepted(analyzeRet)
  /\ Len(analyzed) <= MaxTamperedFrame
  /\ HistoryAsMeasured
  /\ key \in DOMAIN analyzeRet.distances
  /\ analyzeRet.distances[key] # value
  /\ analyzeRet' = [analyzeRet EXCEPT !.distances[key] = value]
  /\ measurementHistory' =
       [measurementHistory EXCEPT
          ![Len(measurementHistory)].distances[key] = value]
  /\ UNCHANGED <<baselineMeasurements, analyzed, analyzerSession>>

\* result.smoothedAngles[axis] = value, for the result of the last call of
\* estimatePose.  The smoothers hold numbers, which no write to the object
\* reaches.
TamperAngles(axis, value) ==
  /\ Accepted(poseRet)
  /\ Len(posed) <= MaxTamperedFrame
  /\ PoseHistoryAsSmoothed
  /\ poseRet.smoothedAngles[axis] # value
  /\ poseRet' = [poseRet EXCEPT !.smoothedAngles[axis] = value]
  /\ poseHistory' = [poseHistory EXCEPT ![Len(poseHistory)][axis] = value]
  /\ UNCHANGED <<yawSmoother, pitchSmoother, rollSmoother, posed, poseSession>>

CallerIds == {"neutral", "shifted"}

(***************************************************************************)
(* Specifications                                                          *)
(***************************************************************************)
Constructed ==
  /\ measurementHistory = <<>>
  /\ baselineMeasurements = Null
  /\ yawSmoother = Null
  /\ pitchSmoother = Null
  /\ rollSmoother = Null
  /\ poseHistory = <<>>
  /\ analyzeRet = Undefined
  /\ poseRet = Undefined
  /\ analyzed = <<>>
  /\ posed = <<>>
  /\ analyzerSession = "new"
  /\ poseSession = "new"

\* The components after their first render (the initial values of useState;
\* FaceMesh3D and FaceMeshSurface are not mounted while facesData is empty).
Loaded ==
  /\ selectedCamera = Null
  /\ isStreaming = FALSE
  /\ currentFrame = Null
  /\ facesData = <<>>
  /\ lastNarration = Null
  /\ startRequests = 0
  /\ narrationTimers = 0
  /\ startedSinceStop = FALSE
  /\ spoken = <<>>
  /\ surface = "unmounted"
  /\ renderMode = "solid"
  /\ stabilize = FALSE
  /\ rerender = FALSE
  /\ submitted = 0
  /\ fed = {}

\* The two objects after construction; no method is called on its own.
Init ==
  /\ Constructed
  /\ Loaded
  /\ given = Undefined
  /\ got = Undefined

\* The analyzer alone, under every sequence of calls.
AnalyzerNext ==
  \/ \E args \in AnalyzeArgs :
       Analyze(args[1], args[2]) /\ UNCHANGED <<poseVars, callVars, uiVars>>
  \/ ResetBaseline /\ UNCHANGED <<poseVars, callVars, uiVars>>

SpecAnalyzer == Init /\ [][AnalyzerNext]_vars

\* The pose estimator alone, under every sequence of calls.
PoseNext ==
  \/ \E l \in PoseFaceIds \cup RejectIds :
       EstimatePose(l) /\ UNCHANGED <<analyzerVars, callVars, uiVars>>
  \/ Reset /\ UNCHANGED <<analyzerVars, callVars, uiVars>>

SpecPose == Init /\ [][PoseNext]_vars

\* The pose estimator alone, shown a swaying head.
SteadyNext ==
  \/ \E l \in SteadyFaceIds \cup RejectIds :
       EstimateSwaying(l) /\ UNCHANGED <<analyzerVars, callVars, uiVars>>
  \/ Reset /\ UNCHANGED <<analyzerVars, callVars, uiVars>>

SpecSteady == Init /\ [][SteadyNext]_vars

\* Both objects, shown whole and odd faces.
ShowNext ==
  \/ \E l \in ShownIds : Show(l) /\ UNCHANGED <<callVars, uiVars>>
  \/ ResetAll /\ UNCHANGED <<callVars, uiVars>>

SpecFaces == Init /\ [][ShowNext]_vars

\* Both objects, and a caller that writes to the results.
CallerNext ==
  \/ \E l \in CallerIds : Show(l) /\ UNCHANGED <<callVars, uiVars>>
  \/ \E key \in TamperedKeys, value \in TamperValues :
       TamperDistances(key, value) /\ UNCHANGED <<poseVars, callVars, uiVars>>
  \/ \E axis \in TamperedAxes, value \in TamperValues :
       TamperAngles(axis, value) /\ UNCHANGED <<analyzerVars, callVars, uiVars>>
  \/ ResetAll /\ UNCHANGED <<callVars, uiVars>>

SpecCaller == Init /\ [][CallerNext]_vars

\* Both objects, driven by the client.
Next ==
  \/ \E args \in SubmitArgs : Submit(args[1], args[2]) /\ UNCHANGED <<callVars, uiVars>>
  \/ ResetAll /\ UNCHANGED <<callVars, uiVars>>

Spec == Init /\ [][Next]_vars

(***************************************************************************)
(* Methods of the analyzer called on their own                             *)
(*                                                                         *)
(* validateAnatomy and normalizeToFaceSize read their argument only: a     *)
(* call is the argument drawn at the start and one step that returns.      *)
(***************************************************************************)
Thousandths(numbers) == {Num(i, -3) : i \in numbers}

\* An object holding the fields of an object literal that are not undefined.
Present(fields) ==
  [key \in {k \in DOMAIN fields : fields[k] # Undefined} |-> fields[key]]

\* Normalized distances about the bounds of the three checks: on a bound,
\* a thousandth beyond it, between the bounds, zero, and the values that
\* are no finite number; Undefined stands for a key the object lacks.
MouthWidths == Thousandths({0, 1199, 1200, 1500, 2000, 2001})
                 \cup {NaN, Infinity(1), Undefined}
NoseWidths  == Thousandths({0, 599, 600, 900, 1200, 1201})
                 \cup {NaN, Infinity(1), Undefined}
FaceHeights == Thousandths({0, 2999, 3000, 4000, 5000, 5001})
                 \cup {NaN, Infinity(1), Undefined}

ValidatedArgs ==
  { Present([MOUTH_WIDTH |-> m, NOSE_WIDTH |-> n, FACE_HEIGHT |-> h]) :
      m \in MouthWidths, n \in NoseWidths, h \in FaceHeights }

ValidateInit ==
  /\ Constructed
  /\ Loaded
  /\ given \in ValidatedArgs
  /\ got = Undefined

CallValidateAnatomy ==
  /\ got = Undefined
  /\ got' = validateAnatomy(given)
  /\ UNCHANGED <<given, analyzerVars, poseVars, uiVars>>

SpecValidate == ValidateInit /\ [][CallValidateAnatomy]_vars

\* Measurement sets: an inter-eye distance that is absent, zero, a fraction,
\* whole, Infinity (the distance of overflowing coordinates) or NaN, with two
\* more measurements that are absent, zero, whole or Infinity.
EyeToEyes == {R(0), Frac(1, 2), R(2), R(3), Infinity(1), NaN, Undefined}
OtherDistances == {R(0), R(1), R(3), R(7), Infinity(1), Undefined}

NormalizedArgs ==
  { Present([EYE_TO_EYE |-> eyes, MOUTH_WIDTH |-> m, FACE_HEIGHT |-> h]) :
      eyes \in EyeToEyes, m \in OtherDistances, h \in OtherDistances }

NormalizeInit ==
  /\ Constructed
  /\ Loaded
  /\ given \in NormalizedArgs
  /\ got = Undefined

CallNormalizeToFaceSize ==
  /\ got = Undefined
  /\ got' = normalizeToFaceSize(given)
  /\ UNCHANGED <<given, analyzerVars, poseVars, uiVars>>

SpecNormalize == NormalizeInit /\ [][CallNormalizeToFaceSize]_vars

\* analyze, lines 122-140: the field `normalized` of the result, for an
\* array of 468 entries or more.
normalizedOfPoints(points) == normalizeToFaceSize(computeDistances(points))

\* The array with every coordinate multiplied by k.
ScaledBy(points, k) ==
  [i \in DOMAIN points |->
     <<RMul(points[i][1], k), RMul(points[i][2], k), RMul(points[i][3], k)>>]

ScaledArray(id, k) ==
  [ref |-> "scaled", length |-> LengthOf(id), pt |-> ScaledBy(PointsOf(id), k)]

\* The frames that are scaled: upright, turned, degenerate and incomplete
\* faces; and the factors: a half, whole numbers, and powers of ten up to
\* those that take the squares of the coordinates out of the range of a
\* number.
ScaledIds == (FaceIds \cup OddFaceIds \cup PoseFaceIds \cup SteadyFaceIds)
               \ {"huge"}
ScaleFactors == {Frac(1, 2), R(2), R(3), R(7), R(10), Num(1, 100),
                 Num(1, -100), Num(1, 200), Num(1, -200)}

ScaleInit ==
  /\ Constructed
  /\ Loaded
  /\ given \in [id : ScaledIds, k : ScaleFactors]
  /\ got = Undefined

\* analyze on the frame and on the scaled frame.
CallAnalyzeScaled ==
  /\ got = Undefined
  /\ got' = [ plain  |-> normalizedOfPoints(LandmarksOf[given.id]),
              scaled |-> normalizedOfPoints(ScaledArray(given.id, given.k)) ]
  /\ UNCHANGED <<given, analyzerVars, poseVars, uiVars>>

SpecScale == ScaleInit /\ [][CallAnalyzeScaled]_vars

\* Faces for computeSymmetry: the neutral face with the eyebrows at the
\* heights y = browL and y = browR (above, on and below the line y = 0), the
\* outer corner of the right eye at x = eyeR (the inner corner is at x = 2,
\* the left eye is 3 wide), and with no landmark missing, the outer corner
\* of the left eye missing, or the right eyebrow missing.
BrowHeights == {-5, -4, 0, 3, 4, 6}
RightEyeCorners == {2, 4, 5, 7}
MissingFromSides == {{}, {33}, SeqRange(FACIAL_REGIONS.RIGHT_EYEBROW)}

SidedFaces ==
  [browL : BrowHeights, browR : BrowHeights, eyeR : RightEyeCorners,
   missing : MissingFromSides]

SidedArray(face) ==
  [ref |-> "sided", length |-> MinLandmarks,
   pt |-> Numbers(WithoutAll(
            FacePoints([NeutralFace EXCEPT !.browL = face.browL,
                                           !.browR = face.browR,
                                           !.eyeR = face.eyeR]),
            face.missing))]

SymmetryInit ==
  /\ Constructed
  /\ Loaded
  /\ given \in SidedFaces
  /\ got = Undefined

CallComputeSymmetry ==
  /\ got = Undefined
  /\ got' = computeSymmetry(SidedArray(given))
  /\ UNCHANGED <<given, analyzerVars, poseVars, uiVars>>

SpecSymmetry == SymmetryInit /\ [][CallComputeSymmetry]_vars

\* Faces that are their own mirror image in the line x = midline: the
\* neutral face with the outer eye corners `corner` to either side of the
\* midline (2: on the inner corners), both eyebrows at the height y = brow
\* before the face is moved by (midline, down), then every coordinate times
\* `factor`; with no landmark missing, both outer eye corners missing, or
\* both eyebrows missing.
MirrorCorners  == {2, 5, 7}
MirrorMidlines == {-7, 0, 3}
MirrorDowns    == {0, 20}
MirrorFactors  == {R(1), Frac(1, 2), R(3), Num(1, 200)}
MissingFromBoth ==
  {{}, {33, 263},
   SeqRange(FACIAL_REGIONS.LEFT_EYEBROW)
     \cup SeqRange(FACIAL_REGIONS.RIGHT_EYEBROW)}

MirroredFaces ==
  [brow : BrowHeights, corner : MirrorCorners, midline : MirrorMidlines,
   down : MirrorDowns, factor : MirrorFactors, missing : MissingFromBoth]

\* The face in whole numbers, before it is scaled.
MirroredPoints(face) ==
  WithoutAll(
    Moved((33 :> P(-face.corner, 0, 0)) @@ (263 :> P(face.corner, 0, 0))
            @@ FacePoints([NeutralFace EXCEPT !.browL = face.brow,
                                              !.browR = face.brow]),
          P(face.midline, face.down, 0)),
    face.missing)

MirroredArray(face) ==
  [ref |-> "mirrored", length |-> MinLandmarks,
   pt |-> ScaledBy(Numbers(MirroredPoints(face)), face.factor)]

MirrorInit ==
  /\ Constructed
  /\ Loaded
  /\ given \in MirroredFaces
  /\ got = Undefined

CallComputeSymmetryMirrored ==
  /\ got = Undefined
  /\ got' = computeSymmetry(MirroredArray(given))
  /\ UNCHANGED <<given, analyzerVars, poseVars, uiVars>>

SpecMirror == MirrorInit /\ [][CallComputeSymmetryMirrored]_vars

\* Anchors for computeFaceAxes: the left eye and the nose tip at fixed
\* points, the right eye and the chin at whole-number vectors from them (the
\* zero vector and parallel pairs among them), then every coordinate times
\* `factor`.
EyeVectors  == {<<x, y, z>> : x \in {0, 3, 4}, y \in {0, 1, -2}, z \in {0, 2}}
ChinVectors == {<<x, y, z>> : x \in {0, 1, 3}, y \in {0, 5, -2},
                              z \in {0, -1, 2}}
AnchorFactors == {R(1), Num(1, 200), Num(1, -200)}

AnchorSets == [eyes : EyeVectors, chin : ChinVectors, factor : AnchorFactors]

AnchorAt(point, factor) ==
  Vector3(RMul(R(point[1]), factor), RMul(R(point[2]), factor),
          RMul(R(point[3]), factor))

AnchorsOfSet(set) ==
  [ leftEye  |-> AnchorAt(<<-2, 1, 0>>, set.factor),
    rightEye |-> AnchorAt(<<-2 + set.eyes[1], 1 + set.eyes[2], set.eyes[3]>>,
                          set.factor),
    noseTip  |-> AnchorAt(<<0, 3, 1>>, set.factor),
    chin     |-> AnchorAt(<<set.chin[1], 3 + set.chin[2], 1 + set.chin[3]>>,
                          set.factor) ]

\* estimatePose, lines 131-134: the axes and the rotation matrix.
matrixOfAxes(axes) ==
  [axes |-> axes, rotationMatrix |-> buildRotationMatrix(axes)]

axesAndMatrix(anchors) ==
  matrixOfAxes(computeFaceAxes(anchors.leftEye, anchors.rightEye,
                               anchors.noseTip, anchors.chin))

AxesInit ==
  /\ Constructed
  /\ Loaded
  /\ given \in AnchorSets
  /\ got = Undefined

CallComputeFaceAxes ==
  /\ got = Undefined
  /\ got' = axesAndMatrix(AnchorsOfSet(given))
  /\ UNCHANGED <<given, analyzerVars, poseVars, uiVars>>

SpecAxes == AxesInit /\ [][CallComputeFaceAxes]_vars

\* A caller of getStabilizationMatrix and applyRotation: the rotation matrix
\* of a set of anchors, its stabilization matrix, a point turned by the
\* first and then by the second, and the three axes turned by the second.
StabilizedPoints == {<<1, 0, 0>>, <<0, 2, -1>>, <<3, -4, 5>>, <<-2, 7, 1>>}

ArrayOfVector(v) == <<v.x, v.y, v.z>>

stabilizedBy(pose, stabilization, point) ==
  [ axes           |-> pose.axes,
    rotationMatrix |-> pose.rotationMatrix,
    stabilization  |-> stabilization,
    back    |-> applyRotation(applyRotation(point, pose.rotationMatrix),
                              stabilization),
    right   |-> applyRotation(ArrayOfVector(pose.axes.right), stabilization),
    up      |-> applyRotation(ArrayOfVector(pose.axes.up), stabilization),
    forward |-> applyRotation(ArrayOfVector(pose.axes.forward),
                              stabilization) ]

stabilized(pose, point) ==
  stabilizedBy(pose, getStabilizationMatrix(pose.rotationMatrix), point)

StabilizeInit ==
  /\ Constructed
  /\ Loaded
  /\ given \in [eyes : EyeVectors, chin : ChinVectors,
                factor : {R(1), Num(1, 200)}, point : StabilizedPoints]
  /\ got = Undefined

CallGetStabilizationMatrix ==
  /\ got = Undefined
  /\ got' = stabilized(axesAndMatrix(AnchorsOfSet(given)),
                       Numbers(<<given.point>>)[1])
  /\ UNCHANGED <<given, analyzerVars, poseVars, uiVars>>

SpecStabilize == StabilizeInit /\ [][CallGetStabilizationMatrix]_vars

(***************************************************************************)
(* The components: FaceMeshDisplay, FaceMesh3D and FaceMeshSurface         *)
(*                                                                         *)
(* FaceMeshDisplay holds selectedCamera, isStreaming, currentFrame,        *)
(* facesData and lastNarration; it renders the start button while          *)
(* isStreaming is false and the stop button otherwise, and a FaceMesh3D    *)
(* for facesData[0].landmarks_3d while facesData is not empty.  FaceMesh3D *)
(* holds renderMode and stabilize and renders a FaceMeshSurface while the  *)
(* landmarks are a non-empty array.  FaceMeshSurface creates the pose      *)
(* estimator and the analyzer once per mount (useMemo with no              *)
(* dependencies), and its effect hands them the frame.  The variables of   *)
(* the two objects are those of the mounted surface; while no surface is   *)
(* mounted they hold what the constructors assign, which is what the next  *)
(* mount starts from.                                                      *)
(*                                                                         *)
(* The page is the one rendered once /api/face_mesh/available has answered  *)
(* true (meshAvailable), which it needs to show any of this.               *)
(*                                                                         *)
(* A state update and the render and effects that follow it are one step.  *)
(* The steps an `await` separates are separate steps: startCamera is the   *)
(* click and, later, the answer of the backend.  The answer to the stop    *)
(* request is only logged, so it is no step.                               *)
(***************************************************************************)
MaxStartRequests == 3
MaxSpoken == 4
MaxShown == 5

\* A string of the page, told apart from null.
Str(s) == [js |-> "string", value |-> s]

Zones == {Str("positive"), Str("negative")}

\* What the constructors of a newly mounted surface assign.
NewInstances ==
  /\ measurementHistory' = <<>>
  /\ baselineMeasurements' = Null
  /\ yawSmoother' = Null
  /\ pitchSmoother' = Null
  /\ rollSmoother' = Null
  /\ poseHistory' = <<>>
  /\ analyzeRet' = Undefined
  /\ poseRet' = Undefined
  /\ analyzed' = <<>>
  /\ posed' = <<>>
  /\ analyzerSession' = "new"
  /\ poseSession' = "new"

\* The landmarks prop of FaceMesh3D, and whether FaceMesh3D renders a
\* FaceMeshSurface for it (facesData.length > 0, landmarks a non-empty array).
ShownLandmarks(faces) == faces[1].landmarks_3d

SurfaceShows(faces) ==
  /\ faces # <<>>
  /\ Truthy(LandmarksOf[ShownLandmarks(faces)])
  /\ LandmarksOf[ShownLandmarks(faces)].length > 0

\* The effect of FaceMeshSurface on the frame l: estimatePose, the centered copy, analyze, and the two callbacks,
\* which set poseData and analysisData of FaceMesh3D to the new objects and
\* so have FaceMesh3D render again.
SurfaceEffect(l) ==
  /\ Len(posed) < MaxShown
  /\ EstimatePose(l)
  /\ \E c \in {CenteredId(l)} : Analyze(l, c)
  /\ rerender' = (Truthy(poseRet') \/ Truthy(analyzeRet'))

\* The render that follows setFacesData(faces).  With no face or no
\* landmarks the surface is unmounted and its objects are dropped; with no
\* face FaceMesh3D is unmounted as well and loses its state.
Unmounted(faces) ==
  /\ surface' = "unmounted"
  /\ NewInstances
  /\ fed' = {}
  /\ submitted' = 0
  /\ rerender' = FALSE
  /\ renderMode' = IF faces = <<>> THEN "solid" ELSE renderMode
  /\ stabilize' = IF faces = <<>> THEN FALSE ELSE stabilize

RenderFaces(faces) ==
  IF SurfaceShows(faces)
  THEN /\ surface' = "mounted"
       /\ \E l \in {ShownLandmarks(faces)} : SurfaceEffect(l)
       /\ fed' = fed \cup {faces[1].face_id}
       /\ submitted' = 1
       /\ UNCHANGED <<renderMode, stabilize>>
  ELSE Unmounted(faces)

\* The value of lastNarration that narrateZoneChange reads when the socket
\* handler calls it.  The handler is registered by an effect with no
\* dependencies, so it is the handler of the first render, and the
\* narrateZoneChange it calls is the function of the first render, whose
\* lastNarration is the initial state.
lastNarrationOfHandler == Null

\* narrateZoneChange(zone) for the zones of a list in turn, reading `seen` as
\* lastNarration: the zones it speaks.
narrated(seen, zones) == SelectSeq(zones, LAMBDA zone : seen # zone)

ChangedZones(faces) ==
  LET changed == SelectSeq(faces, LAMBDA face : face.zone_changed)
  IN  [i \in 1..Len(changed) |-> changed[i].valence_zone]

\* The handler of face_mesh_frame.
FaceMeshFrame(data) ==
  /\ Len(spoken) + Len(ChangedZones(data.faces)) <= MaxSpoken
  /\ currentFrame' = data.frame
  /\ facesData' = data.faces
  /\ spoken' = spoken \o narrated(lastNarrationOfHandler,
                                  ChangedZones(data.faces))
  /\ lastNarration' =
       IF narrated(lastNarrationOfHandler, ChangedZones(data.faces)) = <<>>
       THEN lastNarration
       ELSE ChangedZones(data.faces)[Len(ChangedZones(data.faces))]
  /\ narrationTimers' =
       narrationTimers
         + Len(narrated(lastNarrationOfHandler, ChangedZones(data.faces)))
  /\ RenderFaces(data.faces)
  /\ UNCHANGED <<selectedCamera, isStreaming, startRequests, startedSinceStop>>

\* A callback of setTimeout(() => setLastNarration(null), 2000) runs.
NarrationTimerFires ==
  /\ narrationTimers > 0
  /\ Len(spoken) < MaxSpoken
  /\ narrationTimers' = narrationTimers - 1
  /\ lastNarration' = Null
  /\ spoken' = Append(spoken, [timer |-> "fired"])
  /\ UNCHANGED <<analyzerVars, poseVars, streamVars, surfaceVars>>

\* fetchCameras is answered with a list of cameras.
CamerasFetched(cameras) ==
  /\ selectedCamera' = IF Len(cameras) > 0 THEN cameras[1].id ELSE selectedCamera
  /\ UNCHANGED <<isStreaming, currentFrame, startRequests, startedSinceStop>>
  /\ UNCHANGED <<analyzerVars, poseVars, narrationVars, surfaceVars>>

\* startCamera up to its await: a click on the start button, which is
\* rendered while isStreaming is false, with a camera selected.
StartCameraClicked ==
  /\ ~isStreaming
  /\ selectedCamera # Null
  /\ startRequests < MaxStartRequests
  /\ startRequests' = startRequests + 1
  /\ startedSinceStop' = TRUE
  /\ UNCHANGED <<selectedCamera, isStreaming, currentFrame>>
  /\ UNCHANGED <<analyzerVars, poseVars, narrationVars, surfaceVars>>

\* startCamera from its await on: the backend answers a start request.
StartCameraAnswered(status) ==
  /\ startRequests > 0
  /\ startRequests' = startRequests - 1
  /\ isStreaming' = IF status = "success" THEN TRUE ELSE isStreaming
  /\ UNCHANGED <<selectedCamera, currentFrame, startedSinceStop>>
  /\ UNCHANGED <<analyzerVars, poseVars, narrationVars, surfaceVars>>

\* stopCamera: a click on the stop button, which is rendered while
\* isStreaming is true.
StopCameraClicked ==
  /\ isStreaming
  /\ isStreaming' = FALSE
  /\ currentFrame' = Null
  /\ facesData' = <<>>
  /\ Unmounted(<<>>)
  /\ startedSinceStop' = FALSE
  /\ UNCHANGED <<selectedCamera, startRequests, narrationVars>>

\* FaceMesh3D renders again with the frame it has, and the effect of
\* FaceMeshSurface runs again, for one of three causes, each a dependency of
\* the effect:
\*   "callbacks":  poseData or analysisData was set by the callbacks of the
\*                 last run of the effect, and handlePoseUpdate and
\*                 handleAnalysisUpdate are new functions in every render;
\*   "renderMode": a click on the button of cycleRenderMode;
\*   "stabilize":  a click on the button that toggles stabilize.
RenderCauses == {"callbacks", "renderMode", "stabilize"}

NextRenderMode(mode) ==
  CASE mode = "solid"     -> "wireframe"
    [] mode = "wireframe" -> "contours"
    [] OTHER              -> "solid"

RenderAgain(cause) ==
  /\ surface = "mounted"
  /\ cause = "callbacks" => rerender
  /\ renderMode' = IF cause = "renderMode" THEN NextRenderMode(renderMode)
                   ELSE renderMode
  /\ stabilize' = IF cause = "stabilize" THEN ~stabilize ELSE stabilize
  /\ \E l \in {ShownLandmarks(facesData)} : SurfaceEffect(l)
  /\ submitted' = submitted + 1
  /\ UNCHANGED <<facesData, surface, fed>>
  /\ UNCHANGED <<streamVars, narrationVars>>

\* The messages of the backend: a frame with the faces it tracks.  Face 0
\* shows the neutral face and face 1 the shifted one.
Face(id, changed, zone) ==
  [face_id |-> id,
   landmarks_3d |-> IF id = 0 THEN "neutral" ELSE "shifted",
   zone_changed |-> changed,
   valence_zone |-> zone]

Message(faces) == [frame |-> Str("jpeg"), faces |-> faces]

\* No face, one face, and two faces in either order.
SurfaceMessages ==
  {Message(<<>>)}
    \cup {Message(<<Face(id, FALSE, Str("positive"))>>) : id \in {0, 1}}
    \cup {Message(<<Face(id, FALSE, Str("positive")),
                    Face(1 - id, FALSE, Str("positive"))>>) : id \in {0, 1}}

\* One face whose zone changed or did not.
NarrationMessages ==
  {Message(<<Face(0, changed, zone)>>) : changed \in BOOLEAN, zone \in Zones}

\* No face or one.
StreamMessages ==
  {Message(<<>>)}
    \cup {Message(<<Face(id, FALSE, Str("positive"))>>) : id \in {0, 1}}

\* The surface: frames of one or two faces, and the controls of FaceMesh3D.
SurfaceNext ==
  \/ \E data \in SurfaceMessages : FaceMeshFrame(data) /\ UNCHANGED callVars
  \/ \E cause \in RenderCauses : RenderAgain(cause) /\ UNCHANGED callVars

SpecSurface == Init /\ [][SurfaceNext]_vars

\* Start and stop.
StreamNext ==
  \/ \E cameras \in {<<>>, <<[id |-> R(0)]>>} :
       CamerasFetched(cameras) /\ UNCHANGED callVars
  \/ StartCameraClicked /\ UNCHANGED callVars
  \/ \E status \in {"success", "error"} :
       StartCameraAnswered(status) /\ UNCHANGED callVars
  \/ StopCameraClicked /\ UNCHANGED callVars
  \/ \E data \in StreamMessages : FaceMeshFrame(data) /\ UNCHANGED callVars

SpecStream == Init /\ [][StreamNext]_vars

\* Narration.
NarrationNext ==
  \/ \E data \in NarrationMessages : FaceMeshFrame(data) /\ UNCHANGED callVars
  \/ NarrationTimerFires /\ UNCHANGED callVars

SpecNarration == Init /\ [][NarrationNext]_vars

(***************************************************************************)
(* Properties                                                              *)
(***************************************************************************)
Min(a, b) == IF a < b THEN a ELSE b

Axes == {"yaw", "pitch", "roll"}

\* An input that is null, undefined or shorter than 468 entries.
Rejected(id) == ~Truthy(LandmarksOf[id]) \/ LandmarksOf[id].length < 468

\* C1: a call of estimatePose or analyze with an input that is null,
\* undefined or shorter than 468 entries returns null and leaves the three
\* smoother values, poseHistory, measurementHistory and baselineMeasurements
\* as they were, whatever the state it is made in.
C1_RejectedInputChangesNothing ==
  [][\A args \in SubmitArgs :
       (Rejected(args[1]) /\ Submit(args[1], args[2])) =>
          /\ poseRet' = Null
          /\ analyzeRet' = Null
          /\ UNCHANGED <<yawSmoother, pitchSmoother, rollSmoother, poseHistory,
                         measurementHistory, baselineMeasurements>>]_vars

\* Both calls have just rejected an input in a state in which the smoothers,
\* both histories and the baseline are set.
C1_Witness ==
  /\ poseRet = Null
  /\ analyzeRet = Null
  /\ Truthy(baselineMeasurements)
  /\ Len(measurementHistory) >= 11
  /\ Len(poseHistory) >= 11
  /\ yawSmoother # Null

\* C2: from the 11th accepted frame of a session on, the baseline is the
\* measurement set of the session's 6th accepted frame, and it is the
\* baseline the reported changes are measured against; rejected calls do not
\* count (the log `analyzed` holds the accepted frames only).
C2_BaselineIsSixthFrame ==
  Len(analyzed) >= 11 =>
    /\ baselineMeasurements = distancesOf[analyzed[6].points]
    /\ Accepted(analyzeRet) =>
         \A key \in DOMAIN analyzeRet.expression.changes :
            analyzeRet.expression.changes[key].baseline
              = distancesOf[analyzed[6].points][key]

\* At least 11 frames were accepted, the 6th and the 7th differ, and the
\* last call reported a change against the 6th.
C2_Witness ==
  /\ Len(analyzed) >= 11
  /\ distancesOf[analyzed[6].points] # distancesOf[analyzed[7].points]
  /\ Accepted(analyzeRet)
  /\ analyzeRet.expression.hasChange

\* C3: once the baseline is captured, every step leaves it as it is, except
\* resetBaseline (the only call that returns nothing), which sets it to null.
C3_BaselineIsNeverRecomputed ==
  [][Truthy(baselineMeasurements) =>
       \/ baselineMeasurements' = baselineMeasurements
       \/ baselineMeasurements' = Null /\ analyzeRet' = Undefined]_vars

\* The baseline is still held after the 37th accepted frame, when the entry
\* it was taken from has left the history and no entry of the history equals
\* it.
C3_Witness ==
  /\ Truthy(baselineMeasurements)
  /\ Len(analyzed) = 37
  /\ Accepted(analyzeRet)
  /\ \A k \in 1..Len(measurementHistory) :
        measurementHistory[k].distances # baselineMeasurements

\* C4: a call of analyze that ends without a baseline returns
\* {hasChange: false, changes: {}}, and each of the first 10 accepted frames
\* of a session ends without a baseline.
C4_NoBaselineNoChange ==
  /\ (Accepted(analyzeRet) /\ ~Truthy(baselineMeasurements)) =>
        analyzeRet.expression = [hasChange |-> FALSE, changes |-> <<>>]
  /\ Len(analyzed) <= 10 => ~Truthy(baselineMeasurements)

\* The 10th accepted frame, whose measurements differ from those of the
\* 9th, has returned without a change.
C4_Witness ==
  /\ Len(analyzed) = 10
  /\ Accepted(analyzeRet)
  /\ distancesOf[analyzed[10].points] # distancesOf[analyzed[9].points]
  /\ ~analyzeRet.expression.hasChange

\* (c - b) / b * 100, for b # 0.
PercentOf(c, b) == RMul(RDiv(RSub(c, b), b), R(100))

\* |(c - b) / b * 100| > 10 for measurements c >= 0 and b >= 0, as IEEE
\* arithmetic evaluates it: for b = 0 the quotient is infinite when c > 0
\* and NaN (which exceeds nothing) when c = 0.
ExceedsTenPercent(c, b) ==
  IF RIsZero(b) THEN ~RIsZero(c) ELSE RGt(RAbs(PercentOf(c, b)), R(10))

\* C5 as stated: with a baseline, hasChange is true exactly if some
\* measurement present in the current set and in the baseline changed by
\* more than 10 percent, and changes holds exactly those measurements.
C5_EveryCommonKeyIsCompared ==
  (Accepted(analyzeRet) /\ Truthy(baselineMeasurements)) =>
    LET current == analyzeRet.distances
        over == {key \in DOMAIN current \cap DOMAIN baselineMeasurements :
                   ExceedsTenPercent(current[key], baselineMeasurements[key])}
    IN  /\ analyzeRet.expression.hasChange = (over # {})
        /\ DOMAIN analyzeRet.expression.changes = over

\* C5, amended: with a baseline, hasChange is true exactly if some
\* measurement present in the current set and present with a non-zero value
\* in the baseline changed by more than 10 percent of that value, and changes
\* holds exactly those measurements.
C5_NonZeroBaselineKeysAreCompared ==
  (Accepted(analyzeRet) /\ Truthy(baselineMeasurements)) =>
    LET current == analyzeRet.distances
        over == {key \in DOMAIN current \cap DOMAIN baselineMeasurements :
                   /\ ~RIsZero(baselineMeasurements[key])
                   /\ ExceedsTenPercent(current[key],
                                        baselineMeasurements[key])}
    IN  /\ analyzeRet.expression.hasChange = (over # {})
        /\ DOMAIN analyzeRet.expression.changes = over

\* A frame was compared with a baseline in which a measurement is 0: the
\* measurement is not 0 in the frame, and no change is reported.
C5_Witness ==
  /\ Accepted(analyzeRet)
  /\ Truthy(baselineMeasurements)
  /\ \E key \in DOMAIN analyzeRet.distances \cap DOMAIN baselineMeasurements :
        /\ RIsZero(baselineMeasurements[key])
        /\ ~RIsZero(analyzeRet.distances[key])
  /\ ~analyzeRet.expression.hasChange

\* C6: an entry of changes holds the current value c, the baseline value
\* b > 0, percentChange = (c - b) / b * 100 and the direction, "increase" if
\* percentChange > 0 and "decrease" otherwise; a change of exactly 10 percent
\* has no entry; baseline 10 and current 12 on the 11th frame give
\* percentChange 20 and "increase".
C6_ReportedEntry ==
  (Accepted(analyzeRet) /\ Truthy(baselineMeasurements)) =>
    LET current == analyzeRet.distances
        changes == analyzeRet.expression.changes
    IN  /\ \A key \in DOMAIN changes :
              LET b == baselineMeasurements[key]
                  c == current[key]
                  e == changes[key]
              IN  /\ RGt(b, R(0))
                  /\ e.current = c
                  /\ e.baseline = b
                  /\ e.percentChange = PercentOf(c, b)
                  /\ e.direction = IF RGt(e.percentChange, R(0))
                                   THEN "increase" ELSE "decrease"
        /\ \A key \in DOMAIN current \cap DOMAIN baselineMeasurements :
              LET b == baselineMeasurements[key]
                  c == current[key]
              IN  (RGt(b, R(0)) /\ RAbs(PercentOf(c, b)) = R(10))
                    => key \notin DOMAIN changes
        /\ ( /\ Len(analyzed) = 11
             /\ baselineMeasurements["EYE_TO_EYE"] = R(10)
             /\ current["EYE_TO_EYE"] = R(12) )
           => /\ "EYE_TO_EYE" \in DOMAIN changes
              /\ changes["EYE_TO_EYE"].percentChange = R(20)
              /\ changes["EYE_TO_EYE"].direction = "increase"

\* The 11th frame has an inter-eye distance of 12 against a baseline of 10
\* and is reported with a decrease of another measurement, while the mouth
\* width, changed by exactly 10 percent, is not reported.
C6_Witness ==
  /\ Len(analyzed) = 11
  /\ Accepted(analyzeRet)
  /\ baselineMeasurements["EYE_TO_EYE"] = R(10)
  /\ analyzeRet.distances["EYE_TO_EYE"] = R(12)
  /\ "EYE_TO_EYE" \in DOMAIN analyzeRet.expression.changes
  /\ \E key \in DOMAIN analyzeRet.expression.changes :
        analyzeRet.expression.changes[key].direction = "decrease"
  /\ baselineMeasurements["MOUTH_WIDTH"] = R(20)
  /\ analyzeRet.distances["MOUTH_WIDTH"] = R(22)
  /\ "MOUTH_WIDTH" \notin DOMAIN analyzeRet.expression.changes

\* C7: a session begun by resetBaseline starts with no baseline and an empty
\* history and runs like the session of a new analyzer: the history holds
\* the frames of the session only, its first 10 accepted frames report no
\* change, and its baseline is its 6th accepted frame.
C7_ResetRestartsTheAnalyzer ==
  analyzerSession = "reset" =>
    /\ Len(analyzed) = 0 =>
         measurementHistory = <<>> /\ baselineMeasurements = Null
    /\ Len(measurementHistory) = Min(Len(analyzed), 30)
    /\ Len(analyzed) <= 10 =>
         /\ baselineMeasurements = Null
         /\ Accepted(analyzeRet) => ~analyzeRet.expression.hasChange
    /\ Len(analyzed) >= 11 =>
         baselineMeasurements = distancesOf[analyzed[6].points]

\* The 11th frame after a reset has reported a change.
C7_Witness ==
  /\ analyzerSession = "reset"
  /\ Len(analyzed) = 11
  /\ Accepted(analyzeRet)
  /\ analyzeRet.expression.hasChange

\* C8: both histories hold at most 30 entries, namely the entries of the
\* last min(n, 30) accepted frames of the session in the order of their
\* submission; after 35 accepted frames they hold 30 entries, the first of
\* which is that of the 6th frame.
C8_HistoriesHoldTheLastThirty ==
  LET n  == Len(analyzed)
      m  == Len(posed)
      lm == Len(measurementHistory)
      lp == Len(poseHistory)
  IN  /\ lm <= 30 /\ lp <= 30
      /\ lm = Min(n, 30)
      /\ \A k \in 1..lm :
            /\ measurementHistory[k].timestamp = analyzed[n - lm + k].timestamp
            /\ measurementHistory[k].distances
                 = distancesOf[analyzed[n - lm + k].points]
      /\ lp = Min(m, 30)
      /\ \A k \in 1..lp : poseHistory[k] = posed[m - lp + k].smoothedAngles
      /\ n = 35 => /\ lm = 30
                   /\ measurementHistory[1].timestamp = analyzed[6].timestamp
      /\ m = 35 => lp = 30 /\ poseHistory[1] = posed[6].smoothedAngles

\* 35 frames were accepted, the last of them with the head turned, so that
\* the newest entry of poseHistory differs from the oldest.
C8_Witness ==
  /\ Len(analyzed) = 35
  /\ Len(posed) = 35
  /\ Len(measurementHistory) = 30
  /\ Len(poseHistory) = 30
  /\ poseHistory[30] # poseHistory[1]
  /\ measurementHistory[1].timestamp = 5

Uninitialized ==
  /\ yawSmoother = Null
  /\ pitchSmoother = Null
  /\ rollSmoother = Null
  /\ poseHistory = <<>>

Tracking ==
  /\ yawSmoother # Null
  /\ pitchSmoother # Null
  /\ rollSmoother # Null
  /\ poseHistory # <<>>

\* C9: the pose estimator is always Uninitialized or Tracking; an accepted
\* frame leaves it Tracking, reset (the call that returns nothing) leaves it
\* Uninitialized, and a rejected frame leaves the smoothers and the history
\* as they were.
C9_UninitializedOrTracking ==
  /\ [](Uninitialized \/ Tracking)
  /\ [][ /\ Accepted(poseRet') => Tracking'
         /\ poseRet' = Undefined => Uninitialized'
         /\ poseRet' = Null =>
              UNCHANGED <<yawSmoother, pitchSmoother, rollSmoother,
                          poseHistory>> ]_vars

\* After a reset the estimator is tracking again, and its last call has
\* rejected a frame.
C9_Witness ==
  /\ poseSession = "reset"
  /\ Tracking
  /\ Len(posed) >= 2
  /\ poseRet = Null

\* C10: the smoothed angles of the first accepted frame of a session are
\* its raw angles; on each later accepted frame, on each axis,
\* smoothed = 0.3 * raw + 0.7 * the smoothed angle of that axis on the
\* accepted frame before.  Each
\* smoother holds the latest smoothed angle of its axis, whatever calls were
\* rejected since.
C10_ExponentialSmoothing ==
  /\ \A i \in 1..Len(posed) : \A axis \in Axes :
        LET raw      == posed[i].rawAngles[axis]
            smoothed == posed[i].smoothedAngles[axis]
        IN  IF i = 1 THEN smoothed = raw
            ELSE smoothed
                   = RAdd(RMul(Frac(3, 10), raw),
                          RMul(Frac(7, 10), posed[i - 1].smoothedAngles[axis]))
  /\ Len(posed) >= 1 =>
        /\ yawSmoother = posed[Len(posed)].smoothedAngles["yaw"]
        /\ pitchSmoother = posed[Len(posed)].smoothedAngles["pitch"]
        /\ rollSmoother = posed[Len(posed)].smoothedAngles["roll"]

\* A session begun by reset: its first frame has a yaw of 90 degrees, the
\* second none (smoothed 63), the third a pitch of 90 degrees (smoothed 27,
\* yaw 44.1, roll 0), and the call after it was rejected.
C10_Witness ==
  /\ poseSession = "reset"
  /\ Len(posed) = 3
  /\ posed[1].smoothedAngles = [yaw |-> R(90), pitch |-> R(0), roll |-> R(0)]
  /\ posed[2].smoothedAngles = [yaw |-> R(63), pitch |-> R(0), roll |-> R(0)]
  /\ posed[3].smoothedAngles
       = [yaw |-> Frac(441, 10), pitch |-> R(27), roll |-> R(0)]
  /\ poseRet = Null
  /\ pitchSmoother = R(27)

\* The numbers of a sequence added from left to right and divided by their
\* count.
MeanOf(values) == RDiv(RSumSeq(values), R(Len(values)))

\* The population standard deviation of a sequence of numbers: the square
\* root of the mean squared distance from the mean.
SquaredDistances(values, mean) ==
  [i \in 1..Len(values) |-> RMul(RSub(values[i], mean),
                                 RSub(values[i], mean))]

PopulationStd(values) ==
  RSqrt(MeanOf(SquaredDistances(values, MeanOf(values))))

\* min(q / 10, 1.0)
Clamped(q) == IF RLt(RDiv(q, R(10)), R(1)) THEN RDiv(q, R(10)) ELSE R(1)

HistoryOf(axis) == [i \in 1..Len(poseHistory) |-> poseHistory[i][axis]]

\* What C11 says of every poseHistory: the stability of each axis is the
\* clamped population standard deviation of the axis, and the overall
\* stability is the clamped mean of the three standard deviations.
StabilityFollowsFormula ==
  /\ \A axis \in Axes :
       stability[axis] = Clamped(PopulationStd(HistoryOf(axis)))
  /\ stability.overall
       = Clamped(RDiv(RAdd(RAdd(PopulationStd(HistoryOf("yaw")),
                                PopulationStd(HistoryOf("pitch"))),
                           PopulationStd(HistoryOf("roll"))), R(3)))

\* C11 as stated: after every accepted frame, for every poseHistory length
\* from 1 to 30, stability.yaw, stability.pitch and stability.roll equal
\* min(std / 10, 1.0) of the population standard deviation of the axis over
\* the current poseHistory, and stability.overall equals min(m / 10, 1.0) for
\* the mean m of the three standard deviations.
C11_StabilityIsClampedStd ==
  Accepted(poseRet) => StabilityFollowsFormula

\* C11, amended: after every accepted frame the formula holds when
\* poseHistory has 5 to 30 entries, and all four stability values are 1.0
\* when it has 1 to 4 entries.
C11_StabilityFromFiveEntries ==
  Accepted(poseRet) =>
    /\ Len(poseHistory) \in 1..30
    /\ Len(poseHistory) >= 5 => StabilityFollowsFormula
    /\ Len(poseHistory) < 5 =>
         /\ stability.overall = R(1)
         /\ \A axis \in Axes : stability[axis] = R(1)

\* A swaying head after five or more frames: the yaw stability lies strictly
\* between 0 and 1, and so does the overall stability, while the head has
\* also nodded.
C11_Witness ==
  /\ Accepted(poseRet)
  /\ Len(poseHistory) >= 5
  /\ RGt(stability.yaw, R(0)) /\ RLt(stability.yaw, R(1))
  /\ RGt(stability.pitch, R(0))
  /\ RGt(stability.overall, R(0)) /\ RLt(stability.overall, R(1))

\* A session of 30 accepted frames whose raw yaw alternates between -20 and
\* +20 degrees.
YawAlternates(log) ==
  /\ Len(log) = 30
  /\ log[1].rawAngles.yaw \in {R(-20), R(20)}
  /\ \A i \in 2..Len(log) :
       log[i].rawAngles.yaw = RNeg(log[i - 1].rawAngles.yaw)

\* C12 as stated: after 30 frames whose yaw alternates between -20 and +20
\* degrees have been submitted to a fresh estimator, stability.yaw equals
\* 1.0.
C12_AlternatingYawIsAtCeiling ==
  (Accepted(poseRet) /\ YawAlternates(posed)) => stability.yaw = R(1)

\* C12, amended: after these 30 frames poseHistory holds the smoothed yaw
\* angles, which lie within 12 degrees of 0 from the second frame on, and
\* stability.yaw lies between 0.53 and 0.55, below the ceiling.
C12_AlternatingYawIsDamped ==
  (Accepted(poseRet) /\ YawAlternates(posed)) =>
    /\ Len(poseHistory) = 30
    /\ \A i \in 1..30 : poseHistory[i].yaw = posed[i].smoothedAngles.yaw
    /\ \A i \in 2..30 : RLt(RAbs(poseHistory[i].yaw), R(12))
    /\ RGt(stability.yaw, Frac(53, 100))
    /\ RLt(stability.yaw, Frac(55, 100))

\* The 30th frame of a head that leans 20 degrees to the left and to the
\* right in turn has been accepted.
C12_Witness ==
  /\ Accepted(poseRet)
  /\ YawAlternates(posed)
  /\ poseRet.rawAngles.yaw \in {R(-20), R(20)}

\* All entries of poseHistory hold the same angle on an axis.
Agrees(axis) ==
  \A i \in 1..Len(poseHistory) : poseHistory[i][axis] = poseHistory[1][axis]

\* A number without a fractional part.
IsWhole(a) ==
  \/ a.e >= 0
  \/ a.e >= -3 /\ a.m % Pow10(-a.e) = 0

\* The relative precision of the arithmetic: one unit in the last of four
\* significant digits.
Precision == Frac(1, 1000)

\* C13 as stated: the stability of an axis is exactly 0 whenever the history
\* holds at least 5 entries that all agree on that axis (after 30 frames of
\* the same angles in particular).
C13_AgreeingEntriesGiveExactlyZero ==
  (Accepted(poseRet) /\ Len(poseHistory) >= 5) =>
    \A axis \in Axes : Agrees(axis) => stability[axis] = R(0)

\* C13, amended: when the history holds at least 5 entries that all agree on
\* an axis, the stability of that axis is exactly 0 if the common angle is a
\* whole number of degrees (0 in particular), and for any other common angle
\* v it is at most 3 * |v| times the relative precision of the arithmetic,
\* the rounding error of the mean of up to 30 entries.
C13_AgreeingEntriesAreStable ==
  (Accepted(poseRet) /\ Len(poseHistory) >= 5) =>
    \A axis \in Axes :
      Agrees(axis) =>
        /\ IsWhole(poseHistory[1][axis]) => stability[axis] = R(0)
        /\ RLe(stability[axis],
               RMul(RMul(R(3), Precision), RAbs(poseHistory[1][axis])))

\* A head held still at a lean of 36.87 degrees for 30 frames: all entries
\* agree on every axis, the yaw stability is not 0 and the pitch stability
\* (all entries 0) is 0.
C13_Witness ==
  /\ Accepted(poseRet)
  /\ Len(poseHistory) = 30
  /\ \A axis \in Axes : Agrees(axis)
  /\ ~IsWhole(poseHistory[1].yaw)
  /\ stability.yaw # R(0)
  /\ poseHistory[1].pitch = R(0)
  /\ stability.pitch = R(0)

\* The smoothed angle of the i-th frame accepted since the last reset (or
\* since construction), computed from the frames of the session alone: that
\* of the first is its raw angle, each later one 0.3 of its raw angle plus
\* 0.7 of the smoothed angle before.
SmoothedSinceReset(i, axis) ==
  IF i = 1 THEN posed[1].rawAngles[axis]
  ELSE RAdd(RMul(Frac(3, 10), posed[i].rawAngles[axis]),
            RMul(Frac(7, 10), posed[i - 1].smoothedAngles[axis]))

\* The estimator's state and its last result are what the frames since the
\* last reset make them: nothing submitted before the reset is left in them.
HoldsSessionOnly ==
  /\ \A i \in 1..Len(posed) : \A axis \in Axes :
       posed[i].smoothedAngles[axis] = SmoothedSinceReset(i, axis)
  /\ Len(poseHistory) = Min(Len(posed), 30)
  /\ \A k \in 1..Len(poseHistory) :
       poseHistory[k]
         = posed[Len(posed) - Len(poseHistory) + k].smoothedAngles
  /\ yawSmoother = IF posed = <<>> THEN Null
                   ELSE posed[Len(posed)].smoothedAngles.yaw
  /\ pitchSmoother = IF posed = <<>> THEN Null
                     ELSE posed[Len(posed)].smoothedAngles.pitch
  /\ rollSmoother = IF posed = <<>> THEN Null
                    ELSE posed[Len(posed)].smoothedAngles.roll
  /\ Accepted(poseRet) =>
       poseRet.smoothedAngles = posed[Len(posed)].smoothedAngles

\* C14: after reset(), called in any state, the three smoothers hold no
\* value and poseHistory is empty; the next accepted frame returns
\* smoothedAngles equal to its rawAngles and leaves poseHistory with exactly
\* one entry; and the smoothed angles, the history (of which stability is a
\* function) and the smoothers are at all times those of the frames accepted
\* since the reset alone.  (In a session begun by a reset, posed is empty
\* from the reset until the first frame after it is accepted.)
C14_ResetForgetsThePose ==
  /\ (poseSession = "reset" /\ posed = <<>>) =>
       /\ yawSmoother = Null /\ pitchSmoother = Null /\ rollSmoother = Null
       /\ poseHistory = <<>>
  /\ (poseSession = "reset" /\ Len(posed) = 1 /\ Accepted(poseRet)) =>
       /\ poseRet.smoothedAngles = poseRet.rawAngles
       /\ poseHistory = <<poseRet.rawAngles>>
       /\ stability = computeStability(<<poseRet.rawAngles>>)
  /\ HoldsSessionOnly

\* The first frame after a reset has been accepted, the head leaning by 20
\* degrees: its smoothed angles are its raw angles and the history holds
\* that one entry.
C14_Witness ==
  /\ poseSession = "reset"
  /\ Len(posed) = 1
  /\ Accepted(poseRet)
  /\ poseRet.rawAngles.yaw = R(20)
  /\ poseRet.smoothedAngles.yaw = R(20)
  /\ Len(poseHistory) = 1

\* C15: no write of a caller to a result of analyze or estimatePose changes
\* measurementHistory, the baseline or poseHistory: the objects held in the
\* persisted state cannot be reached from a returned value.
C15_ResultsShareNothing ==
  [][(\/ \E key \in TamperedKeys, value \in TamperValues :
           TamperDistances(key, value)
      \/ \E axis \in TamperedAxes, value \in TamperValues :
           TamperAngles(axis, value))
       => UNCHANGED <<measurementHistory, baselineMeasurements,
                      poseHistory>>]_vars

\* The same for what the writes lead to: at every time the histories hold
\* what the frames of the session produced, and the baseline is the
\* measurement set of the sixth frame.
C15_PersistedStateIsComputed ==
  /\ HistoryAsMeasured
  /\ PoseHistoryAsSmoothed
  /\ Truthy(baselineMeasurements) =>
       baselineMeasurements = distancesOf[analyzed[6].points]

\* The frame the last accepted call of analyze measured.
LastShown == analyzed[Len(analyzed)].points

Holds(id, idx) == idx \in DOMAIN LandmarksOf[id].pt

\* The measurement pairs both of whose landmarks the array holds.
PresentPairs(id) ==
  {name \in DOMAIN MEASUREMENT_PAIRS :
     Holds(id, MEASUREMENT_PAIRS[name][1])
       /\ Holds(id, MEASUREMENT_PAIRS[name][2])}

DerivedKeys == {"LEFT_EYE_HEIGHT", "RIGHT_EYE_HEIGHT", "MOUTH_OPENNESS"}

HeldOf(id, indices) == {i \in SeqRange(indices) : Holds(id, i)}

\* What the analyzer returns for a frame some of whose entries are absent:
\* a distance for the pairs with both landmarks, the derived measurements
\* (0 when no pair of lid points, or a lip, is there), no warning for a
\* measurement that is absent, ratio 1 for a side without landmarks,
\* curvature 0 for a region with fewer than three landmarks, and no centre
\* (null) for a region without any.
AnalyzerSkipsAbsentLandmarks ==
  (Accepted(analyzeRet) /\ Len(analyzed) > 0) =>
    /\ DOMAIN analyzeRet.distances = PresentPairs(LastShown) \cup DerivedKeys
    /\ DOMAIN analyzeRet.normalized = DOMAIN analyzeRet.distances
    /\ HeldOf(LastShown, FACIAL_REGIONS.LEFT_EYE.upper) = {} =>
         analyzeRet.distances["LEFT_EYE_HEIGHT"] = R(0)
    /\ ~Holds(LastShown, 13) => analyzeRet.distances["MOUTH_OPENNESS"] = R(0)
    /\ \A w \in SeqRange(analyzeRet.validation.warnings) :
          /\ w.name = "mouthWidth" => "MOUTH_WIDTH" \in PresentPairs(LastShown)
          /\ w.name = "noseWidth" => "NOSE_WIDTH" \in PresentPairs(LastShown)
          /\ w.name = "faceHeight" => "FACE_HEIGHT" \in PresentPairs(LastShown)
    /\ ~Holds(LastShown, 33) => analyzeRet.symmetry.eyes = R(1)
    /\ HeldOf(LastShown, FACIAL_REGIONS.RIGHT_EYEBROW) = {} =>
         analyzeRet.symmetry.eyebrows = R(1)
    /\ Cardinality(HeldOf(LastShown, FACIAL_REGIONS.NOSE.bridge)) < 3 =>
         analyzeRet.curvature.noseBridge = R(0)
    /\ HeldOf(LastShown, FACIAL_REGIONS.LEFT_CHEEK) = {} =>
         /\ analyzeRet.curvature.leftCheek = R(0)
         /\ analyzeRet.regions.leftCheek = Null
    /\ HeldOf(LastShown, FACIAL_REGIONS.RIGHT_CHEEK) # {} =>
         analyzeRet.regions.rightCheek # Null

\* C16: for a frame of 468 entries some of which are absent no call raises
\* an exception, neither analyze nor estimatePose (the latter also when one
\* of its anchors 33, 263, 1, 152, 133, 362 is absent), and the analyzer
\* leaves the absent landmarks out of what it measures.
C16_AbsentLandmarksRaiseNothing ==
  /\ analyzeRet # Thrown
  /\ poseRet # Thrown
  /\ AnalyzerSkipsAbsentLandmarks

\* The frame without landmark 33 was shown: analyze returned a result for
\* it, and estimatePose threw.
SparseShown ==
  /\ Len(analyzed) > 0
  /\ LastShown = "sparse"
  /\ Accepted(analyzeRet)
  /\ poseRet = Thrown

\* Every entry of a function (a record, a sequence) is a finite number.
FiniteAll(f) == \A k \in DOMAIN f : IsNum(f[k])

\* Every number of the result of analyze is finite, and no reported change
\* is measured against a baseline value of 0.
AnalysisIsFinite ==
  Accepted(analyzeRet) =>
    /\ FiniteAll(analyzeRet.distances)
    /\ FiniteAll(analyzeRet.normalized)
    /\ FiniteAll(analyzeRet.symmetry)
    /\ FiniteAll(analyzeRet.curvature)
    /\ \A key \in DOMAIN analyzeRet.expression.changes :
          /\ IsNum(analyzeRet.expression.changes[key].percentChange)
          /\ ~RIsZero(analyzeRet.expression.changes[key].baseline)
    /\ \A r \in DOMAIN analyzeRet.regions :
          analyzeRet.regions[r] # Null => FiniteAll(analyzeRet.regions[r])

\* Every number of the result of estimatePose is finite.
PoseIsFinite ==
  Accepted(poseRet) =>
    /\ \A a \in DOMAIN poseRet.axes : FiniteAll(poseRet.axes[a])
    /\ \A i \in 1..3 : FiniteAll(poseRet.rotationMatrix[i])
    /\ FiniteAll(poseRet.rawAngles)
    /\ FiniteAll(poseRet.smoothedAngles)
    /\ FiniteAll(stability)

ZeroVector == Vector3(R(0), R(0), R(0))

\* The fallback values of degenerate geometry, for the frame shown last.
FallbacksApply ==
  /\ (Accepted(analyzeRet) /\ Len(analyzed) > 0) =>
       /\ ("EYE_TO_EYE" \in DOMAIN analyzeRet.distances
             /\ RIsZero(analyzeRet.distances["EYE_TO_EYE"])) =>
            analyzeRet.normalized = analyzeRet.distances
       /\ (\E side \in {"LEFT_EYE_WIDTH", "RIGHT_EYE_WIDTH"} :
              \/ side \notin DOMAIN analyzeRet.distances
              \/ RIsZero(analyzeRet.distances[side])) =>
            analyzeRet.symmetry.eyes = R(1)
       /\ (\E brow \in {FACIAL_REGIONS.LEFT_EYEBROW,
                        FACIAL_REGIONS.RIGHT_EYEBROW} :
              \/ HeldOf(LastShown, brow) = {}
              \/ \A i \in HeldOf(LastShown, brow) :
                    RIsZero(LandmarksOf[LastShown].pt[i][2])) =>
            analyzeRet.symmetry.eyebrows = R(1)
       /\ Cardinality(HeldOf(LastShown, FACIAL_REGIONS.NOSE.bridge)) < 3 =>
            analyzeRet.curvature.noseBridge = R(0)
       /\ LastShown = "oneEyed" =>
            analyzeRet.curvature.noseBridge = RDiv(Num(1571, -3), R(2))
  /\ (Accepted(poseRet) /\ Len(analyzed) > 0) =>
       /\ LastShown = "oneEyed" =>
            /\ poseRet.axes.right = ZeroVector
            /\ poseRet.axes.forward = ZeroVector
            /\ poseRet.axes.up = ZeroVector
       /\ LastShown = "sideways" =>
            /\ poseRet.axes.right # ZeroVector
            /\ poseRet.axes.forward = ZeroVector

\* The values a coordinate takes in an array, and the arrays in proportion:
\* every coordinate and every difference of two coordinates is 0 or of a
\* magnitude between 10^-150 and 10^150, so that no square of a length
\* leaves the range of the numbers.
CoordinatesOf(id) ==
  {LandmarksOf[id].pt[i][k] : i \in DOMAIN LandmarksOf[id].pt, k \in 1..3}

Middling(c) == RIsZero(c) \/ (IsNum(c) /\ c.e + 3 >= -150 /\ c.e + 3 <= 150)

InProportion ==
  {id \in ShownIds :
     \A a \in CoordinatesOf(id), b \in CoordinatesOf(id) :
        Middling(a) /\ Middling(RSub(a, b))}

\* C17, as stated: no accepted frame with finite coordinates makes an
\* operation divide by zero or return NaN or an infinity, and degenerate
\* geometry gives the fallback values (scale 1, ratio 1, curvature 0, the
\* zero vector).  Every frame of the model has finite coordinates.
C17_FiniteFramesGiveFiniteResults ==
  /\ AnalysisIsFinite
  /\ PoseIsFinite
  /\ FallbacksApply

\* C17, amended: the same for the sessions all of whose frames are in
\* proportion.
C17_FramesInProportionGiveFiniteResults ==
  (\A i \in 1..Len(analyzed) : analyzed[i].points \in InProportion) =>
    /\ AnalysisIsFinite
    /\ PoseIsFinite
    /\ FallbacksApply

\* The frame with no distance between the outer eye corners was shown, after
\* a baseline with values of 0 was taken from the neutral face, and both
\* calls returned a result that reports a change.
C17_Witness ==
  /\ Len(analyzed) >= 11
  /\ analyzed[6].points = "neutral"
  /\ LastShown = "oneEyed"
  /\ Accepted(analyzeRet)
  /\ analyzeRet.expression.hasChange
  /\ RIsZero(analyzeRet.distances["EYE_TO_EYE"])
  /\ Accepted(poseRet)
  /\ poseRet.axes.right = ZeroVector

\* The fields of the object analyze returns.
ResultFields ==
  {"distances", "symmetry", "curvature", "expression", "normalized",
   "validation", "regions"}

\* C18: validation is advisory.  Whether or not the frames validate, the
\* history holds the measurements of the last 30 accepted frames, the
\* baseline is taken at the 11th accepted frame from the 6th, and a frame
\* with warnings gets the complete result, with the measurements that were
\* appended for it.
C18_ValidationIsAdvisory ==
  /\ Len(measurementHistory) = Min(Len(analyzed), maxHistoryLength)
  /\ \A k \in 1..Len(measurementHistory) :
        measurementHistory[k]
          = [ timestamp  |->
                analyzed[Len(analyzed) - Len(measurementHistory) + k].timestamp,
              distances  |->
                distancesOf[analyzed[Len(analyzed) - Len(measurementHistory)
                                       + k].points],
              normalized |->
                normalizedOf[analyzed[Len(analyzed) - Len(measurementHistory)
                                        + k].points] ]
  /\ Truthy(baselineMeasurements) <=> Len(analyzed) >= 11
  /\ Len(analyzed) >= 11 =>
       baselineMeasurements = distancesOf[analyzed[6].points]
  /\ (Accepted(analyzeRet) /\ ~analyzeRet.validation.valid) =>
       /\ DOMAIN analyzeRet = ResultFields
       /\ Len(analyzeRet.validation.warnings) > 0
       /\ analyzeRet.distances = distancesOf[LastShown]
       /\ analyzeRet.normalized = normalizedOf[LastShown]
       /\ analyzeRet.symmetry = symmetryOf[LastShown]
       /\ analyzeRet.curvature = curvatureOf[LastShown]
       /\ analyzeRet.regions = regionsOf[LastShown]
       /\ measurementHistory[Len(measurementHistory)].distances
            = analyzeRet.distances

\* Eleven frames or more were analyzed, none of which validates: the history
\* holds them, the sixth is the baseline, and the face shown last differs
\* from it, which the result reports.
C18_Witness ==
  /\ Len(analyzed) >= 11
  /\ \A i \in 1..Len(analyzed) : ~validationOf[analyzed[i].points].valid
  /\ Accepted(analyzeRet)
  /\ ~analyzeRet.validation.valid
  /\ Len(analyzeRet.validation.warnings) = 2
  /\ baselineMeasurements = distancesOf[analyzed[6].points]
  /\ analyzed[6].points # LastShown
  /\ analyzeRet.expression.hasChange

\* The bounds of the three checks in thousandths, and the key each reads.
CheckNames == {"mouthWidth", "noseWidth", "faceHeight"}
BoundsOf(name) ==
  CASE name = "mouthWidth" -> [key |-> "MOUTH_WIDTH", min |-> 1200, max |-> 2000]
    [] name = "noseWidth"  -> [key |-> "NOSE_WIDTH", min |-> 600, max |-> 1200]
    [] name = "faceHeight" -> [key |-> "FACE_HEIGHT", min |-> 3000, max |-> 5000]

\* The number of thousandths of a finite number that has a whole number of
\* them.
InThousandths(value) ==
  IF value.e >= -3 THEN value.m * Pow10(value.e + 3)
  ELSE value.m \div Pow10(-3 - value.e)

\* The value the argument holds for a check lies outside the check's
\* bounds: below min or above max.  No value, and NaN, lie nowhere.
OutsideBounds(name) ==
  /\ BoundsOf(name).key \in DOMAIN given
  /\ given[BoundsOf(name).key] # NaN
  /\ \/ ~IsNum(given[BoundsOf(name).key])
     \/ InThousandths(given[BoundsOf(name).key]) < BoundsOf(name).min
     \/ InThousandths(given[BoundsOf(name).key]) > BoundsOf(name).max

WarningsAbout(name) ==
  {i \in 1..Len(got.warnings) : got.warnings[i].name = name}

\* C19: validateAnatomy returns exactly one warning for each of mouthWidth,
\* noseWidth and faceHeight whose normalized value lies outside [1.2, 2.0],
\* [0.6, 1.2] and [3.0, 5.0], a value equal to a bound included in the
\* interval, and no other warning; so there are at most three warnings, and
\* valid is true exactly when there is none.
C19_OneWarningPerValueOutOfBounds ==
  got # Undefined =>
    /\ \A name \in CheckNames :
         Cardinality(WarningsAbout(name)) = IF OutsideBounds(name) THEN 1 ELSE 0
    /\ \A i \in 1..Len(got.warnings) : got.warnings[i].name \in CheckNames
    /\ Len(got.warnings) \in 0..3
    /\ got.valid = (got.warnings = <<>>)

\* A mouth width of exactly 1.2 and a face height of exactly 5 are passed
\* with a nose width of 1.201, and the one warning is about the nose.
C19_Witness ==
  /\ got # Undefined
  /\ DOMAIN given = {"MOUTH_WIDTH", "NOSE_WIDTH", "FACE_HEIGHT"}
  /\ given["MOUTH_WIDTH"] = Frac(12, 10)
  /\ given["FACE_HEIGHT"] = R(5)
  /\ given["NOSE_WIDTH"] = Num(1201, -3)
  /\ Len(got.warnings) = 1
  /\ got.warnings[1].name = "noseWidth"
  /\ got.warnings[1].is = "too large"
  /\ ~got.valid

\* The inter-eye distance of the argument, undefined when the key is absent.
GivenEyeToEye ==
  IF "EYE_TO_EYE" \in DOMAIN given THEN given["EYE_TO_EYE"] ELSE Undefined

DividedBy(divisor) ==
  \A key \in DOMAIN given : got[key] = RDiv(given[key], divisor)

\* C20 as stated: every value is divided by EYE_TO_EYE when that is present
\* and not zero, so that the normalized EYE_TO_EYE is exactly 1; every value
\* is returned unchanged when EYE_TO_EYE is absent or zero; the result has
\* exactly the keys of the argument, and the argument is not modified.
C20_PresentNonZeroScaleGivesOne ==
  /\ [](got # Undefined =>
          /\ DOMAIN got = DOMAIN given
          /\ (GivenEyeToEye # Undefined /\ ~RIsZero(GivenEyeToEye)) =>
               (DividedBy(GivenEyeToEye) /\ got["EYE_TO_EYE"] = R(1))
          /\ (GivenEyeToEye = Undefined \/ RIsZero(GivenEyeToEye)) =>
               got = given)
  /\ [][given' = given]_vars

\* C20, amended: every value is divided by EYE_TO_EYE when that is present
\* and neither zero nor NaN, and returned unchanged when EYE_TO_EYE is
\* absent, zero or NaN; the normalized EYE_TO_EYE is exactly 1 when
\* EYE_TO_EYE is a finite number other than zero, and NaN when it is
\* Infinity; the result has exactly the keys of the argument, and the
\* argument is not modified.
C20_FiniteNonZeroScaleGivesOne ==
  /\ [](got # Undefined =>
          /\ DOMAIN got = DOMAIN given
          /\ TruthyNumber(GivenEyeToEye) => DividedBy(GivenEyeToEye)
          /\ (TruthyNumber(GivenEyeToEye) /\ IsNum(GivenEyeToEye)) =>
               got["EYE_TO_EYE"] = R(1)
          /\ GivenEyeToEye = Infinity(1) => got["EYE_TO_EYE"] = NaN
          /\ ~TruthyNumber(GivenEyeToEye) => got = given)
  /\ [][given' = given]_vars

\* A mouth width of 3 and a face height of 7 are normalized by an inter-eye
\* distance of 2.
C20_Witness ==
  /\ got # Undefined
  /\ DOMAIN given = {"EYE_TO_EYE", "MOUTH_WIDTH", "FACE_HEIGHT"}
  /\ given["EYE_TO_EYE"] = R(2)
  /\ given["MOUTH_WIDTH"] = R(3)
  /\ given["FACE_HEIGHT"] = R(7)
  /\ got["EYE_TO_EYE"] = R(1)
  /\ got["MOUTH_WIDTH"] = Frac(15, 10)
  /\ got["FACE_HEIGHT"] = Frac(35, 10)


\* Two numbers that differ by no more than the rounding of the operations of
\* one measurement (with four digits kept, and sums of differences of
\* rounded coordinates: 2 in 100 of the larger); a value that is no finite
\* number is near itself only.
Near(a, b) ==
  IF IsNum(a) /\ IsNum(b)
  THEN RLe(RMul(RAbs(RSub(a, b)), R(50)), RMax(RAbs(a), RAbs(b)))
  ELSE a = b

NearAll(f, g) ==
  DOMAIN f = DOMAIN g /\ \A key \in DOMAIN f : Near(f[key], g[key])

\* C21 as stated, equality read up to rounding: for every frame of 468 points
\* or more and every positive factor k, the normalized measurements of the
\* frame scaled by k are those of the frame.
C21_ScalingLeavesNormalizedUnchanged ==
  got # Undefined => NearAll(got.plain, got.scaled)

\* The frame measures an inter-eye distance that is not zero, and the factor
\* keeps the squares of the coordinate differences within the range of a
\* number.
EyesApart(id) ==
  /\ "EYE_TO_EYE" \in DOMAIN distancesOf[id]
  /\ ~RIsZero(distancesOf[id]["EYE_TO_EYE"])
ModerateFactor(k) == k.e + 3 \in -100..100

\* C21, amended: for every frame that measures an inter-eye distance other
\* than zero, and every positive factor that takes no squared coordinate
\* difference out of the range of a number, the normalized measurements of
\* the scaled frame are those of the frame up to rounding.  For a frame
\* whose inter-eye distance is zero or not measured the normalized
\* measurements are the distances themselves, and scale by k.
C21_ScalingLeavesNormalizedOfEyesApart ==
  (got # Undefined /\ ModerateFactor(given.k)) =>
     /\ DOMAIN got.scaled = DOMAIN got.plain
     /\ EyesApart(given.id) => NearAll(got.plain, got.scaled)
     /\ ~EyesApart(given.id) =>
          \A key \in DOMAIN got.plain :
             Near(RMul(got.plain[key], given.k), got.scaled[key])

\* The face with a wider mouth, turned by 20 degrees and three times as
\* large, has the normalized mouth width of the face itself.
C21_Witness ==
  /\ got # Undefined
  /\ given = [id |-> "swayLeft", k |-> R(3)]
  /\ EyesApart(given.id)
  /\ RGt(got.plain["MOUTH_WIDTH"], R(1))
  /\ Near(got.plain["MOUTH_WIDTH"], got.scaled["MOUTH_WIDTH"])

\* The face with coincident eye corners, twice as large: the normalized
\* mouth width is the mouth width, 20 and 40.
ScaledWithoutEyeDistance ==
  /\ got # Undefined
  /\ given = [id |-> "oneEyed", k |-> R(2)]
  /\ got.plain["MOUTH_WIDTH"] = R(20)
  /\ got.scaled["MOUTH_WIDTH"] = R(40)

\* The sides of the face drawn, in whole numbers: the widths of the eyes and
\* the mean heights of the eyebrows; and whether a side is measured.
IntAbs(i) == IF i < 0 THEN -i ELSE i
Max(a, b) == IF a > b THEN a ELSE b
LeftEyeSide  == (-2) - (-5)
RightEyeSide == given.eyeR - 2
EyesMeasured  == 33 \notin given.missing
BrowsMeasured == given.missing # SeqRange(FACIAL_REGIONS.RIGHT_EYEBROW)

\* 1 - |L - R| / max(L, R)
RatioOfSides(left, right) ==
  RSub(R(1), RDiv(R(IntAbs(left - right)), R(Max(left, right))))

UnitInterval(x) == IsNum(x) /\ RLe(R(0), x) /\ RLe(x, R(1))

\* overall is the mean of the two sub-scores and score is overall x 100,
\* every value in [0, 1] and the score in [0, 100].
MeanAndPercentage ==
  /\ got.overall = RDiv(RAdd(got.eyes, got.eyebrows), R(2))
  /\ got.score = RMul(got.overall, R(100))
  /\ UnitInterval(got.eyes) /\ UnitInterval(got.eyebrows)
  /\ UnitInterval(got.overall)
  /\ RLe(R(0), got.score) /\ RLe(got.score, R(100))

\* C22 as stated: each sub-score of computeSymmetry is 1 - |L - R| /
\* max(L, R) for every pair of measured sides, and 1 only when a side is
\* zero or missing; overall is the mean of the two sub-scores and score is
\* overall x 100, every value in [0, 1] and the score in [0, 100].
C22_RatioOfMeasuredSides ==
  got # Undefined =>
    /\ got.eyes =
         IF EyesMeasured /\ RightEyeSide # 0
         THEN RatioOfSides(LeftEyeSide, RightEyeSide) ELSE R(1)
    /\ got.eyebrows =
         IF BrowsMeasured /\ given.browL # 0 /\ given.browR # 0
         THEN RatioOfSides(given.browL, given.browR) ELSE R(1)
    /\ MeanAndPercentage

\* C22, amended: each sub-score is 1 - |L - R| / max(L, R) for every pair of
\* sides that are both greater than zero, and 1 when a side is missing, zero
\* or less than zero (the mean height of an eyebrow above the line y = 0);
\* overall is the mean of the two sub-scores and score is overall x 100,
\* every value in [0, 1] and the score in [0, 100].
C22_RatioOfPositiveSides ==
  got # Undefined =>
    /\ got.eyes =
         IF EyesMeasured /\ RightEyeSide > 0
         THEN RatioOfSides(LeftEyeSide, RightEyeSide) ELSE R(1)
    /\ got.eyebrows =
         IF BrowsMeasured /\ given.browL > 0 /\ given.browR > 0
         THEN RatioOfSides(given.browL, given.browR) ELSE R(1)
    /\ MeanAndPercentage

\* Eyes 3 and 5 wide, eyebrows at the heights 3 and 4: the sub-scores are
\* 0.6 and 0.75, overall is 0.675 and the score 67.5.
C22_Witness ==
  /\ got # Undefined
  /\ given = [browL |-> 3, browR |-> 4, eyeR |-> 7, missing |-> {}]
  /\ got.eyes = Frac(6, 10)
  /\ got.eyebrows = Frac(75, 100)
  /\ got.overall = Frac(675, 1000)
  /\ got.score = Frac(675, 10)

\* Eyebrows at the heights -4 and -5 are measured, differ, and score 1.
UnevenBrowsAboveTheLine ==
  /\ got # Undefined
  /\ given.browL = -4 /\ given.browR = -5 /\ given.missing = {}
  /\ got.eyebrows = R(1)

\* The landmarks computeSymmetry compares, left with right: the eye corners
\* and the eyebrows, entry by entry.
SidePairs ==
  {<<33, 263>>, <<133, 362>>}
    \cup {<<FACIAL_REGIONS.LEFT_EYEBROW[i], FACIAL_REGIONS.RIGHT_EYEBROW[i]>> :
            i \in 1..Len(FACIAL_REGIONS.LEFT_EYEBROW)}

\* Each left landmark is the image of its right counterpart in the line
\* x = midline (or both are missing).
MirrorSymmetric(points, midline) ==
  \A pair \in SidePairs :
     /\ pair[1] \in DOMAIN points <=> pair[2] \in DOMAIN points
     /\ pair[1] \in DOMAIN points =>
          /\ points[pair[1]][1] + points[pair[2]][1] = 2 * midline
          /\ points[pair[1]][2] = points[pair[2]][2]
          /\ points[pair[1]][3] = points[pair[2]][3]

PerfectSymmetry ==
  /\ got.eyes = R(1)
  /\ got.eyebrows = R(1)
  /\ got.overall = R(1)
  /\ got.score = R(100)

\* C23 as stated: for every frame that is its own mirror image in a vertical
\* line, computeSymmetry returns eyes = 1, eyebrows = 1, overall = 1 and the
\* percentage 100.
C23_MirroredFrameIsSymmetric ==
  (got # Undefined /\ MirrorSymmetric(MirroredPoints(given), given.midline))
    => PerfectSymmetry

\* C23, amended: for every frame that is its own mirror image in a vertical
\* line and whose squared coordinate differences stay within the range of a
\* number, computeSymmetry returns eyes = 1, eyebrows = 1, overall = 1 and
\* the percentage 100.
C23_MirroredFrameInRangeIsSymmetric ==
  (/\ got # Undefined
   /\ MirrorSymmetric(MirroredPoints(given), given.midline)
   /\ ModerateFactor(given.factor))
    => PerfectSymmetry

\* A mirrored face about the line x = 3, three times as large, with eyes 3
\* wide and the eyebrows at the height 24, measured and found symmetric.
C23_Witness ==
  /\ got # Undefined
  /\ given = [brow |-> 4, corner |-> 5, midline |-> 3, down |-> 20,
              factor |-> R(3), missing |-> {}]
  /\ MirrorSymmetric(MirroredPoints(given), given.midline)
  /\ sideWidth(MirroredArray(given), 33, 133) = R(9)
  /\ sideWidth(MirroredArray(given), 263, 362) = R(9)
  /\ getRegionHeight(MirroredArray(given), FACIAL_REGIONS.LEFT_EYEBROW) = R(72)
  /\ PerfectSymmetry

\* Whole-number vectors: the cross product, and a pair that spans a plane
\* (neither vector is zero, and they are not parallel).
IntCross(u, v) ==
  <<u[2] * v[3] - u[3] * v[2], u[3] * v[1] - u[1] * v[3],
    u[1] * v[2] - u[2] * v[1]>>
SpansPlane(u, v) == IntCross(u, v) # <<0, 0, 0>>

\* Numbers of the size of 1 that agree up to the rounding of the operations
\* behind them (1 in 100, with four digits kept).
About(a, b) ==
  IsNum(a) /\ IsNum(b) /\ RLe(RAbs(RSub(a, b)), Frac(1, 100))

DotOfVectors(u, v) ==
  RAdd(RAdd(RMul(u.x, v.x), RMul(u.y, v.y)), RMul(u.z, v.z))

Orthonormal(axes) ==
  /\ About(DotOfVectors(axes.right, axes.right), R(1))
  /\ About(DotOfVectors(axes.up, axes.up), R(1))
  /\ About(DotOfVectors(axes.forward, axes.forward), R(1))
  /\ About(DotOfVectors(axes.right, axes.up), R(0))
  /\ About(DotOfVectors(axes.right, axes.forward), R(0))
  /\ About(DotOfVectors(axes.up, axes.forward), R(0))

Determinant(m) ==
  RAdd(RSub(RMul(m[1][1], RSub(RMul(m[2][2], m[3][3]), RMul(m[2][3], m[3][2]))),
            RMul(m[1][2], RSub(RMul(m[2][1], m[3][3]), RMul(m[2][3], m[3][1])))),
       RMul(m[1][3], RSub(RMul(m[2][1], m[3][2]), RMul(m[2][2], m[3][1]))))

\* m x m^T, entry (i, j).
TimesTranspose(m, i, j) ==
  RAdd(RAdd(RMul(m[i][1], m[j][1]), RMul(m[i][2], m[j][2])),
       RMul(m[i][3], m[j][3]))

IsRotation(m) ==
  /\ About(Determinant(m), R(1))
  /\ \A i, j \in 1..3 :
        About(TimesTranspose(m, i, j), IF i = j THEN R(1) ELSE R(0))

ColumnsAreAxes ==
  \A i \in 1..3 :
     /\ got.rotationMatrix[i][1] = (<<got.axes.right.x, got.axes.right.y,
                                      got.axes.right.z>>)[i]
     /\ got.rotationMatrix[i][2] = (<<got.axes.up.x, got.axes.up.y,
                                      got.axes.up.z>>)[i]
     /\ got.rotationMatrix[i][3] = (<<got.axes.forward.x, got.axes.forward.y,
                                      got.axes.forward.z>>)[i]

\* C24 as stated, equality read up to rounding: whenever the vector from eye
\* to eye and the vector from nose to chin are not zero and not parallel,
\* right, up and forward are unit vectors at right angles to each other, and
\* the matrix with these columns has the determinant +1 and the identity as
\* its product with its transpose.
C24_AxesAreOrthonormal ==
  (got # Undefined /\ SpansPlane(given.eyes, given.chin)) =>
     /\ Orthonormal(got.axes)
     /\ ColumnsAreAxes
     /\ IsRotation(got.rotationMatrix)

\* C24, amended: the same, for anchors whose squared coordinate differences
\* neither overflow nor underflow.
C24_AxesInRangeAreOrthonormal ==
  (/\ got # Undefined
   /\ SpansPlane(given.eyes, given.chin)
   /\ ModerateFactor(given.factor)) =>
     /\ Orthonormal(got.axes)
     /\ ColumnsAreAxes
     /\ IsRotation(got.rotationMatrix)

\* Eyes along (3, 1, 2) and nose to chin along (1, 5, -1), neither at a right
\* angle to the other nor along a coordinate axis.
C24_Witness ==
  /\ got # Undefined
  /\ given = [eyes |-> <<3, 1, 2>>, chin |-> <<1, 5, -1>>, factor |-> R(1)]
  /\ SpansPlane(given.eyes, given.chin)
  /\ RGt(got.axes.right.x, R(0)) /\ RGt(got.axes.right.z, R(0))
  /\ RGt(got.axes.up.y, R(0))
  /\ Orthonormal(got.axes)
  /\ IsRotation(got.rotationMatrix)

\* Anchors that span a plane, 10^200 times as large: every axis is the zero
\* vector.
HugeAnchorsGiveNoAxes ==
  /\ got # Undefined
  /\ given = [eyes |-> <<3, 1, 2>>, chin |-> <<1, 5, -1>>,
              factor |-> Num(1, 200)]
  /\ got.axes.right = Vector3(R(0), R(0), R(0))
  /\ got.axes.up = Vector3(R(0), R(0), R(0))
  /\ got.axes.forward = Vector3(R(0), R(0), R(0))

\* computeFaceAxes has divided by three lengths that are finite and not
\* zero: no axis is the zero vector normalize returns otherwise.
NoAxisIsZero ==
  /\ got.axes.right # Vector3(R(0), R(0), R(0))
  /\ got.axes.up # Vector3(R(0), R(0), R(0))
  /\ got.axes.forward # Vector3(R(0), R(0), R(0))

\* Points whose coordinates agree up to the rounding of the two rotations.
AboutPoint(p, q) ==
  \A i \in 1..3 :
     IsNum(p[i]) /\ IsNum(q[i])
       /\ RLe(RAbs(RSub(p[i], q[i])), Frac(5, 100))

FrameShown == analyzed'[Len(analyzed')].points

\* C26: what estimatePose returns as axes, rotationMatrix and rawAngles, and
\* what analyze returns as distances, symmetry, curvature, normalized and
\* validation, is computed from the frame of the call alone: whatever the
\* histories, the smoothers and the baseline hold when the call is made, and
\* whatever a caller has written into them, the same frame gets the same
\* values (distancesOf, symmetryOf, curvatureOf, normalizedOf, validationOf
\* and framePoseOf are the functions of the frame, tabulated).
C26_FrameOutputsDependOnFrameOnly ==
  [][Len(analyzed') = Len(analyzed) + 1 =>
       /\ analyzeRet'.distances = distancesOf[FrameShown]
       /\ analyzeRet'.symmetry = symmetryOf[FrameShown]
       /\ analyzeRet'.curvature = curvatureOf[FrameShown]
       /\ analyzeRet'.normalized = normalizedOf[FrameShown]
       /\ analyzeRet'.validation = validationOf[FrameShown]
       /\ Estimable(FrameShown) =>
            /\ poseRet'.axes = framePoseOf[FrameShown].axes
            /\ poseRet'.rotationMatrix = framePoseOf[FrameShown].rotationMatrix
            /\ poseRet'.rawAngles = framePoseOf[FrameShown].rawAngles]_vars

\* The eleventh frame of a session shows the face of the seventh to the
\* tenth, after six frames of another face: it gets the measurements of the
\* face, and an expression change that the frames before it did not get.
C26_Witness ==
  /\ Len(analyzed) = 11
  /\ analyzed[6].points # analyzed[7].points
  /\ analyzed[7].points = analyzed[11].points
  /\ Accepted(analyzeRet)
  /\ analyzeRet.expression.hasChange
  /\ analyzeRet.distances = distancesOf[analyzed[11].points]
  /\ measurementHistory[7].distances = distancesOf[analyzed[11].points]

\* For the frames the surface is shown, the copy made with stabilize on
\* holds the numbers of the copy made with stabilize off.
UprightFramesStayPut ==
  \A l \in SurfaceIds :
    stabilizeLandmarks(LandmarksOf[CenteredId(l)].pt, framePoseOf[l])
      = LandmarksOf[CenteredId(l)].pt

(***************************************************************************)
(* C27: the pose estimator and the analyzer of a mounted FaceMeshSurface   *)
(* only ever receive frames of one tracked subject: frames of two          *)
(* different face_ids are never fed to the same instance, whatever faces   *)
(* the backend reports and in whatever order.                              *)
(***************************************************************************)
C27_OneSubjectPerInstance == Cardinality(fed) <= 1

\* The two faces are reported in one order and then in the other: the
\* objects that measured face 0 measure face 1, and the change between the
\* two faces enters the smoothed pose and the history of the same objects.
TwoSubjectsInOneHistory ==
  /\ fed = {0, 1}
  /\ Len(analyzed) = 2
  /\ Len(measurementHistory) = 2
  /\ FrameOf(analyzed[1].points) # FrameOf(analyzed[2].points)


(***************************************************************************)
(* C28: each landmark frame delivered to FaceMeshSurface is submitted to   *)
(* estimatePose and analyze exactly once: neither a change of renderMode   *)
(* or stabilize nor the render that the callbacks onPoseUpdate and         *)
(* onAnalysisUpdate cause submits the frame again, so that one frame adds  *)
(* one entry to poseHistory and one to measurementHistory.                 *)
(***************************************************************************)
C28_EachFrameSubmittedOnce == surface = "mounted" => submitted = 1

\* One message was delivered since the surface was mounted, and the objects
\* hold two entries of its frame.
OneFrameTwoEntries ==
  /\ surface = "mounted"
  /\ submitted = 2
  /\ Len(poseHistory) = 2
  /\ Len(measurementHistory) = 2

\* The same, by the render the callbacks cause alone: no control of
\* FaceMesh3D was touched.
ResubmittedUntouched ==
  /\ OneFrameTwoEntries
  /\ renderMode = "solid"
  /\ ~stabilize


(***************************************************************************)
(* C29: isStreaming becomes true only when the backend answered a start    *)
(* request with the status 'success'; and once stopCamera has run,         *)
(* isStreaming stays false until the user starts again after that stop,    *)
(* whatever the order of clicks, answers and frames, answers to start      *)
(* requests that arrive after the stop included.                           *)
(***************************************************************************)
C29_StreamingOnlyStartedSinceStop == isStreaming => startedSinceStop

\* The part of the sentence about the answer: isStreaming turns true in no
\* step but an answer to a start request.
StreamingTurnsTrueOnAnswer ==
  [][~isStreaming /\ isStreaming' => startRequests' = startRequests - 1]_vars

\* After the stop, with no click since, the page streams and shows a frame.
FrameShownAfterStop ==
  /\ isStreaming
  /\ ~startedSinceStop
  /\ currentFrame # Null


(***************************************************************************)
(* C30: narrateZoneChange, called by the handler of face_mesh_frame, never *)
(* speaks the same zone twice in a row unless the timer that resets        *)
(* lastNarration has fired in between: a second zone_changed event for the *)
(* zone narrated last is suppressed while lastNarration holds that zone.   *)
(***************************************************************************)
C30_SameZoneNotSpokenTwiceInARow ==
  \A i \in 1..(Len(spoken) - 1) :
    spoken[i] \in Zones => spoken[i + 1] # spoken[i]

\* A zone is spoken a second time while lastNarration holds it and both
\* timers are still to run.
SpokenAgainWhileHeld ==
  /\ Len(spoken) = 2
  /\ spoken[1] \in Zones
  /\ spoken[2] = spoken[1]
  /\ lastNarration = spoken[1]
  /\ narrationTimers = 2

====
